---- MODULE Spec2Model ----
(***************************************************************************)
(* A model of the Linoleum tile-map editor: the tile grid and its file     *)
(* format (tilegrid.rs), the editor state with its undo/redo history and   *)
(* mutation handles (state.rs), and the grid canvas tools (paint.rs).      *)
(***************************************************************************)
EXTENDS Integers, Sequences, FiniteSets, TLC

(***************************************************************************)
(* Bounds and program constants.                                           *)
(***************************************************************************)
\* The default grid size, scaled down from 36 x 24.
GRID_DEFAULT_NUM_COLS == 3
GRID_DEFAULT_NUM_ROWS == 2
\* const MAX_UNDOS: usize = 100
MAX_UNDOS == 100
\* const DEFAULT_TILE_SIZE: u32 = 8 (no sprite is larger in the model)
DEFAULT_TILE_SIZE == 8
\* Number of input events explored by the gesture specification.
MaxEvents == 5
\* Number of input events explored by the tools specification.
MaxToolEvents == 4
\* Longest run of mutations explored by the undo/redo specification: one more
\* than the undo stack can hold.
MaxRunEdits == 101
\* Number of values in a chain of save/load or cut/paste calls.
MaxTrialSteps == 4
\* Number of input events explored by the prompts specification.
MaxPromptEvents == 5
\* Number of input events explored by the editing specification.
MaxEditEvents == 4
\* Number of input events explored by the view-size specification.
MaxViewEvents == 6
\* Number of input events explored by the clipboard specification.
MaxClipboardEvents == 5
MaxTilesEvents == 7

Min(a, b) == IF a < b THEN a ELSE b
Max(a, b) == IF a > b THEN a ELSE b
\* The number of u32 values.  It stands for 2^32, which is beyond the integers
\* of the model checker; every size and coordinate of the model is far below it.
U32_RANGE == 65536
\* An i32 value cast to u32 (`as u32` wraps in every build).
AsU32(x) == x % U32_RANGE
\* Rust's integer division truncates toward zero.
TruncDiv(a, b) == IF a >= 0 THEN a \div b ELSE -((-a) \div b)

(***************************************************************************)
(* Tiles, sub-grids, tile grids.                                           *)
(***************************************************************************)
\* Option<Tile>::None.
None == [filename |-> <<>>, index |-> -1]
\* A Tile: equality is (filename, index) only, the sprite takes no part.
Tile(filename, index) == [filename |-> filename, index |-> index]
IsSome(t) == t.index >= 0

\* SubGrid::new(width, height)
SubGridNew(width, height) ==
    [width |-> width, height |-> height,
     grid |-> [i \in 1..(width * height) |-> None]]

\* Index<(u32, u32)> for SubGrid: out of range is a panic.
InRange(sg, col, row) == col >= 0 /\ row >= 0 /\ col < sg.width /\ row < sg.height
At(sg, col, row) == sg.grid[row * sg.width + col + 1]
\* IndexMut<(u32, u32)> for SubGrid.
SetAt(sg, col, row, t) == [sg EXCEPT !.grid[row * sg.width + col + 1] = t]

\* Strings and files are sequences of bytes.  The tile files of the model:
\* "a" holds two tiles and "b" holds sixty-five.
FileA == <<97>>
FileB == <<98>>
\* A Tileset: the (file name, sprites) pairs; only the number of sprites of a
\* file is kept.  Every sprite of the model is DEFAULT_TILE_SIZE wide.
Tileset(files) == [tiles |-> files, tile_size |-> DEFAULT_TILE_SIZE]
TilesetA == Tileset(<<[filename |-> FileA, ntiles |-> 2]>>)
T1 == Tile(FileA, 0)
T2 == Tile(FileA, 1)

\* A resize that keeps the vector of cells and cuts or pads it at its end.
resize_flat(tg, new_width, new_height) ==
    LET old == tg.subgrid
    IN [tg EXCEPT !.subgrid =
          [width |-> new_width, height |-> new_height,
           grid |-> [i \in 1..(new_width * new_height) |->
                       IF i <= Len(old.grid) THEN old.grid[i] ELSE None]]]

\* TileGrid::resize(new_width, new_height)
resize(tg, new_width, new_height) ==
    LET old == tg.subgrid
    IN [tg EXCEPT !.subgrid =
          [width |-> new_width, height |-> new_height,
           grid |-> [i \in 1..(new_width * new_height) |->
                       LET col == (i - 1) % new_width
                           row == (i - 1) \div new_width
                       IN IF row < Min(old.height, new_height)
                             /\ col < Min(old.width, new_width)
                          THEN At(old, col, row)
                          ELSE None]]]

\* TileGrid::new(tileset)
TileGridNew(tileset) ==
    [background_color |-> <<15, 15, 15>>, tileset |-> tileset,
     subgrid |-> SubGridNew(GRID_DEFAULT_NUM_COLS, GRID_DEFAULT_NUM_ROWS)]

\* sdl2 Rect::new clamps width and height to at least 1.
Rect(x, y, w, h) == [x |-> x, y |-> y, w |-> Max(w, 1), h |-> Max(h, 1)]
RectRight(r) == r.x + r.w
RectBottom(r) == r.y + r.h
RectContains(r, pt) ==
    pt[1] >= r.x /\ pt[1] < RectRight(r) /\ pt[2] >= r.y /\ pt[2] < RectBottom(r)

\* TileGrid::cut_subgrid(rect) when `cut`, TileGrid::copy_subgrid(rect) otherwise.
\* overflow_checks tells whether the build panics on u32 overflow (debug) or
\* wraps (release).  The result is the grid afterwards, the SubGrid returned and
\* whether the call panicked.
ClipSubgrid(tg, rect, cut, overflow_checks) ==
    LET sg == tg.subgrid
        start_col == AsU32(Max(0, rect.x))
        end_col == AsU32(Min(sg.width, RectRight(rect)))
        start_row == AsU32(Max(0, rect.y))
        end_row == AsU32(Min(sg.height, RectBottom(rect)))
        ncols == IF end_col > start_col THEN end_col - start_col ELSE 0
        nrows == IF end_row > start_row THEN end_row - start_row ELSE 0
        \* the loops index self[(col, row)] for every cell of the two ranges
        index_panic == ncols > 0 /\ nrows > 0
                       /\ (end_col > sg.width \/ end_row > sg.height)
        sub_panic == overflow_checks /\ (end_col < start_col \/ end_row < start_row)
        cells == IF index_panic THEN <<>>
                 ELSE [i \in 1..(ncols * nrows) |->
                          At(sg, start_col + ((i - 1) % ncols),
                                 start_row + ((i - 1) \div ncols))]
        cleared == IF index_panic \/ ~cut THEN sg
                   ELSE [sg EXCEPT !.grid =
                           [i \in 1..Len(sg.grid) |->
                              LET col == (i - 1) % sg.width
                                  row == (i - 1) \div sg.width
                              IN IF col >= start_col /\ col < end_col
                                    /\ row >= start_row /\ row < end_row
                                 THEN None ELSE sg.grid[i]]]
    IN [tilegrid |-> [tg EXCEPT !.subgrid = cleared],
        subgrid |-> [width |-> AsU32(end_col - start_col),
                     height |-> AsU32(end_row - start_row),
                     grid |-> cells],
        panic |-> index_panic \/ sub_panic]

copy_subgrid(tg, rect, overflow_checks) == ClipSubgrid(tg, rect, FALSE, overflow_checks)
\* A cut_subgrid that leaves the source cells as they are.
cut_subgrid_keeping(tg, rect, overflow_checks) ==
    ClipSubgrid(tg, rect, FALSE, overflow_checks)
cut_subgrid(tg, rect, overflow_checks) == ClipSubgrid(tg, rect, TRUE, overflow_checks)

\* The ranges of the loops of TileGrid::paste_subgrid.
PasteRanges(tg, subgrid, topleft) ==
    LET sg == tg.subgrid
        src_start_row == Min(AsU32(Max(0, -topleft[2])), subgrid.height)
        src_start_col == Min(AsU32(Max(0, -topleft[1])), subgrid.width)
        dest_start_row == Min(AsU32(Max(0, topleft[2])), sg.height)
        dest_start_col == Min(AsU32(Max(0, topleft[1])), sg.width)
    IN [src_start_row |-> src_start_row, src_start_col |-> src_start_col,
        dest_start_row |-> dest_start_row, dest_start_col |-> dest_start_col,
        num_rows |-> Min(subgrid.height - src_start_row, sg.height - dest_start_row),
        num_cols |-> Min(subgrid.width - src_start_col, sg.width - dest_start_col)]

\* The cells the loops of paste_subgrid index: subgrid[(col, row)] for every
\* pair of the ranges, self[(col, row)] where the tile read is some tile.
PasteReads(tg, subgrid, topleft) ==
    LET p == PasteRanges(tg, subgrid, topleft)
    IN {<<p.src_start_col + col, p.src_start_row + row>> :
           col \in 0..(p.num_cols - 1), row \in 0..(p.num_rows - 1)}
PasteWrites(tg, subgrid, topleft) ==
    LET p == PasteRanges(tg, subgrid, topleft)
    IN {<<p.dest_start_col + c[1] - p.src_start_col,
          p.dest_start_row + c[2] - p.src_start_row>> :
           c \in {d \in PasteReads(tg, subgrid, topleft) :
                     d[1] < subgrid.width /\ d[2] < subgrid.height
                     /\ IsSome(At(subgrid, d[1], d[2]))}}

\* A paste_subgrid that also writes the empty cells of the source.
paste_subgrid_overwriting(tg, subgrid, topleft) ==
    LET sg == tg.subgrid
        p == PasteRanges(tg, subgrid, topleft)
    IN [tg EXCEPT !.subgrid.grid =
          [i \in 1..Len(sg.grid) |->
             LET col == ((i - 1) % sg.width) - p.dest_start_col
                 row == ((i - 1) \div sg.width) - p.dest_start_row
             IN IF col >= 0 /\ col < p.num_cols /\ row >= 0 /\ row < p.num_rows
                THEN At(subgrid, p.src_start_col + col, p.src_start_row + row)
                ELSE sg.grid[i]]]

\* TileGrid::paste_subgrid(subgrid, topleft)
paste_subgrid(tg, subgrid, topleft) ==
    LET sg == tg.subgrid
        p == PasteRanges(tg, subgrid, topleft)
    IN [tg EXCEPT !.subgrid.grid =
          [i \in 1..Len(sg.grid) |->
             LET col == ((i - 1) % sg.width) - p.dest_start_col
                 row == ((i - 1) \div sg.width) - p.dest_start_row
             IN IF col >= 0 /\ col < p.num_cols /\ row >= 0 /\ row < p.num_rows
                   /\ IsSome(At(subgrid, p.src_start_col + col, p.src_start_row + row))
                THEN At(subgrid, p.src_start_col + col, p.src_start_row + row)
                ELSE sg.grid[i]]]

(***************************************************************************)
(* The grid file format (TileGrid::save, TileGrid::load).                  *)
(***************************************************************************)
\* The byte literals of tilegrid.rs.
Byte == [newline |-> 10, space |-> 32, plus |-> 43, comma |-> 44, slash |-> 47,
         zero |-> 48,
         nine |-> 57, gt |-> 62, upper_a |-> 65, upper_z |-> 90, lower_a |-> 97,
         lower_x |-> 120, lower_z |-> 122]
\* b"@BG "
MAGIC == <<64, 66, 71, Byte.space>>

\* format!("{}", n) for an unsigned integer.
RECURSIVE FormatInt(_)
FormatInt(n) ==
    IF n < 10 THEN <<Byte.zero + n>>
    ELSE FormatInt(n \div 10) \o <<Byte.zero + (n % 10)>>

\* The array of index_to_base64: 'A'..'Z', 'a'..'z', '0'..'9', '+', '/'.
Base64Table ==
    <<65, 66, 67, 68, 69, 70, 71, 72, 73, 74, 75, 76, 77, 78,
      79, 80, 81, 82, 83, 84, 85, 86, 87, 88, 89, 90, 97, 98,
      99, 100, 101, 102, 103, 104, 105, 106, 107, 108, 109, 110, 111, 112,
      113, 114, 115, 116, 117, 118, 119, 120, 121, 122, 48, 49, 50, 51,
      52, 53, 54, 55, 56, 57, 43, 47>>
\* index_to_base64(index) panics when index is beyond the array.
IndexPanics(index) == index >= Len(Base64Table)
index_to_base64(index) == Base64Table[index + 1]

\* A base64_to_index that takes '+' and '/' for each other.
base64_to_index_swapped(byte) ==
    IF byte >= Byte.upper_a /\ byte <= Byte.upper_z THEN byte - Byte.upper_a
    ELSE IF byte >= Byte.lower_a /\ byte <= Byte.lower_z THEN byte - Byte.lower_a + 26
    ELSE IF byte >= Byte.zero /\ byte <= Byte.nine THEN byte - Byte.zero + 52
    ELSE IF byte = Byte.plus THEN 63
    ELSE IF byte = Byte.slash THEN 62
    ELSE -1

\* A base64_to_index that also takes '-' and '_' of the URL-safe alphabet.
base64_to_index_url_safe(byte) ==
    IF byte >= Byte.upper_a /\ byte <= Byte.upper_z THEN byte - Byte.upper_a
    ELSE IF byte >= Byte.lower_a /\ byte <= Byte.lower_z THEN byte - Byte.lower_a + 26
    ELSE IF byte >= Byte.zero /\ byte <= Byte.nine THEN byte - Byte.zero + 52
    ELSE IF byte = Byte.plus \/ byte = 45 THEN 62
    ELSE IF byte = Byte.slash \/ byte = 95 THEN 63
    ELSE -1

\* base64_to_index(byte); -1 stands for Err.
base64_to_index(byte) ==
    IF byte >= Byte.upper_a /\ byte <= Byte.upper_z THEN byte - Byte.upper_a
    ELSE IF byte >= Byte.lower_a /\ byte <= Byte.lower_z THEN byte - Byte.lower_a + 26
    ELSE IF byte >= Byte.zero /\ byte <= Byte.nine THEN byte - Byte.zero + 52
    ELSE IF byte = Byte.plus THEN 62
    ELSE IF byte = Byte.slash THEN 63
    ELSE -1

\* Tileset::filenames
Filenames(tileset) == [i \in 1..Len(tileset.tiles) |-> tileset.tiles[i].filename]

\* Tileset::get(file_index, tile_index)
get(tileset, file_index, tile_index) ==
    IF file_index >= Len(tileset.tiles) THEN None
    ELSE IF tile_index >= tileset.tiles[file_index + 1].ntiles THEN None
    ELSE Tile(tileset.tiles[file_index + 1].filename, tile_index)

\* `map` of TileGrid::save: the index a file name was inserted with last;
\* -1 when the name is not in the map (map.get(..).unwrap() panics).
FilenameIndex(filenames, name) ==
    LET hits == {i \in 1..Len(filenames) : filenames[i] = name}
    IN IF hits = {} THEN -1
       ELSE (CHOOSE i \in hits : \A j \in hits : j <= i) - 1

\* No "  " for the empty cells that come before a tile.
PendingSpaces_dropped(spaces) == <<>>

\* `for _ in 0..spaces { line.push_str("  ") }`
PendingSpaces(spaces) == [i \in 1..(2 * spaces) |-> Byte.space]

\* The line of one row in TileGrid::save, from column col on.
RECURSIVE SaveLine(_, _, _, _, _)
SaveLine(tg, row, col, spaces, line) ==
    IF col >= tg.subgrid.width THEN [panic |-> FALSE, line |-> line]
    ELSE LET tile == At(tg.subgrid, col, row)
             file_index == FilenameIndex(Filenames(tg.tileset), tile.filename)
         IN IF ~IsSome(tile) THEN SaveLine(tg, row, col + 1, spaces + 1, line)
            ELSE IF file_index < 0 \/ IndexPanics(file_index) \/ IndexPanics(tile.index)
            THEN [panic |-> TRUE, line |-> line]
            ELSE SaveLine(tg, row, col + 1, 0,
                          line \o PendingSpaces(spaces)
                               \o <<index_to_base64(file_index),
                                    index_to_base64(tile.index)>>)

\* The empty lines at the end are kept.
PopEmptyLines_kept(lines) == lines

\* `while matches!(lines.last(), Some("")) { lines.pop(); }`
RECURSIVE PopEmptyLines(_)
PopEmptyLines(lines) ==
    IF lines # <<>> /\ lines[Len(lines)] = <<>>
    THEN PopEmptyLines(SubSeq(lines, 1, Len(lines) - 1))
    ELSE lines

\* The bytes of `lines` from the i-th on, each followed by a newline.
RECURSIVE WriteLines(_, _)
WriteLines(lines, i) ==
    IF i > Len(lines) THEN <<>>
    ELSE lines[i] \o <<Byte.newline>> \o WriteLines(lines, i + 1)

\* TileGrid::save: the bytes written and whether the call panicked (the header
\* and the file names are written before the rows are encoded).
save(tg) ==
    LET header == MAGIC \o FormatInt(tg.background_color[1]) \o <<Byte.space>>
                  \o FormatInt(tg.background_color[2]) \o <<Byte.space>>
                  \o FormatInt(tg.background_color[3])
                  \o (IF tg.subgrid.width = GRID_DEFAULT_NUM_COLS
                         /\ tg.subgrid.height = GRID_DEFAULT_NUM_ROWS
                      THEN <<Byte.newline>>
                      ELSE <<Byte.space>> \o FormatInt(tg.subgrid.width)
                           \o <<Byte.lower_x>> \o FormatInt(tg.subgrid.height)
                           \o <<Byte.newline>>)
        filenames == Filenames(tg.tileset)
        names == WriteLines([i \in 1..Len(filenames) |-> <<Byte.gt>> \o filenames[i]], 1)
        rows == [r \in 1..tg.subgrid.height |-> SaveLine(tg, r - 1, 0, 0, <<>>)]
        panic == \E r \in 1..Len(rows) : rows[r].panic
        lines == PopEmptyLines([r \in 1..Len(rows) |-> rows[r].line])
    IN IF panic THEN [panic |-> TRUE, bytes |-> header \o names]
       ELSE [panic |-> FALSE,
             bytes |-> header \o names
                       \o (IF lines # <<>> THEN <<Byte.newline>> \o WriteLines(lines, 1)
                           ELSE <<>>)]

\* io::Result::Err
Err == [ok |-> FALSE]

\* read_exactly(reader, string)
read_exactly(bytes, string) ==
    IF Len(bytes) < Len(string) THEN Err
    ELSE IF SubSeq(bytes, 1, Len(string)) # string THEN Err
    ELSE [ok |-> TRUE, rest |-> SubSeq(bytes, Len(string) + 1, Len(bytes))]

\* The loop of read_int.
RECURSIVE ReadIntLoop(_, _)
ReadIntLoop(bytes, value) ==
    IF bytes = <<>> THEN [ok |-> TRUE, value |-> value, next |-> 0, rest |-> <<>>]
    ELSE LET byte == Head(bytes)
             v == value * 10 + (byte - Byte.zero)
         IN IF Byte.zero <= byte /\ byte <= Byte.nine
            THEN (IF v > 255 THEN Err ELSE ReadIntLoop(Tail(bytes), v))
            ELSE [ok |-> TRUE, value |-> value, next |-> byte, rest |-> Tail(bytes)]

\* read_int(reader)
read_int(bytes) == ReadIntLoop(bytes, 0)

\* A read_int_with that takes any byte for the terminator.
read_int_with_any(bytes, terminator) == read_int(bytes)

\* read_int_with(reader, terminator)
read_int_with(bytes, terminator) ==
    LET r == read_int(bytes)
    IN IF ~r.ok THEN Err ELSE IF r.next # terminator THEN Err ELSE r

\* read_string(reader, terminator); every byte of the model is ASCII.
RECURSIVE ReadStringLoop(_, _, _)
ReadStringLoop(bytes, terminator, result) ==
    IF bytes = <<>> THEN [ok |-> TRUE, value |-> result, rest |-> <<>>]
    ELSE IF Head(bytes) = terminator
    THEN [ok |-> TRUE, value |-> result, rest |-> Tail(bytes)]
    ELSE ReadStringLoop(Tail(bytes), terminator, Append(result, Head(bytes)))
read_string(bytes, terminator) == ReadStringLoop(bytes, terminator, <<>>)

\* The tile files in the tile directory: file name -> number of images.
AhiFiles == (FileA :> 2) @@ (FileB :> 65)

\* Tileset::load(window, dirpath, filenames)
TilesetLoad(filenames) ==
    IF \A i \in 1..Len(filenames) : filenames[i] \in DOMAIN AhiFiles
    THEN [ok |-> TRUE,
          tileset |-> Tileset([i \in 1..Len(filenames) |->
                                 [filename |-> filenames[i],
                                  ntiles |-> AhiFiles[filenames[i]]]])]
    ELSE Err

\* The first loop of TileGrid::load: the '>' lines up to the blank line or EOF.
RECURSIVE LoadFilenames(_, _)
LoadFilenames(bytes, filenames) ==
    IF bytes = <<>>
    THEN [ok |-> TRUE, eof |-> TRUE, filenames |-> filenames, rest |-> <<>>]
    ELSE IF Head(bytes) = Byte.gt
    THEN LET r == read_string(Tail(bytes), Byte.newline)
         IN LoadFilenames(r.rest, Append(filenames, r.value))
    ELSE IF Head(bytes) = Byte.newline
    THEN [ok |-> TRUE, eof |-> FALSE, filenames |-> filenames, rest |-> Tail(bytes)]
    ELSE Err

\* The second loop of TileGrid::load: the rows, from cell (col, row) on.
RECURSIVE LoadRows(_, _, _, _, _)
LoadRows(bytes, row, col, subgrid, tileset) ==
    IF row >= subgrid.height \/ bytes = <<>> THEN [ok |-> TRUE, subgrid |-> subgrid]
    ELSE IF Head(bytes) = Byte.newline
    THEN LoadRows(Tail(bytes), row + 1, 0, subgrid, tileset)
    ELSE IF col >= subgrid.width THEN Err
    ELSE IF Len(bytes) < 2 THEN Err
    ELSE LET byte1 == bytes[1]
             byte2 == bytes[2]
             rest == SubSeq(bytes, 3, Len(bytes))
             file_index == base64_to_index(byte1)
             tile_index == base64_to_index(byte2)
             tile == get(tileset, file_index, tile_index)
         IN IF byte1 # Byte.space \/ byte2 # Byte.space
            THEN (IF file_index < 0 \/ tile_index < 0 THEN Err
                  ELSE IF ~IsSome(tile) THEN Err
                  ELSE LoadRows(rest, row, col + 1, SetAt(subgrid, col, row, tile),
                                tileset))
            ELSE LoadRows(rest, row, col + 1, subgrid, tileset)

\* TileGrid::load(window, dirpath, reader)
load(bytes) ==
    LET magic == read_exactly(bytes, MAGIC)
        red == read_int_with(magic.rest, Byte.space)
        green == read_int_with(red.rest, Byte.space)
        blue == read_int(green.rest)
        width == read_int_with(blue.rest, Byte.lower_x)
        height == read_int_with(width.rest, Byte.newline)
        explicit == blue.next = Byte.space
        size_ok == blue.next = Byte.newline \/ (explicit /\ width.ok /\ height.ok)
        subgrid == IF explicit THEN SubGridNew(width.value, height.value)
                   ELSE SubGridNew(GRID_DEFAULT_NUM_COLS, GRID_DEFAULT_NUM_ROWS)
        names == LoadFilenames(IF explicit THEN height.rest ELSE blue.rest, <<>>)
        tileset == TilesetLoad(names.filenames)
        rows == LoadRows(names.rest, 0, 0, subgrid, tileset.tileset)
        Loaded(sg) == [ok |-> TRUE,
                       tilegrid |-> [background_color |->
                                        <<red.value, green.value, blue.value>>,
                                     tileset |-> tileset.tileset,
                                     subgrid |-> sg]]
    IN IF ~magic.ok THEN Err
       ELSE IF ~red.ok THEN Err
       ELSE IF ~green.ok THEN Err
       ELSE IF ~blue.ok THEN Err
       ELSE IF ~size_ok THEN Err
       ELSE IF ~names.ok THEN Err
       ELSE IF ~tileset.ok THEN Err
       ELSE IF names.eof THEN Loaded(subgrid)
       ELSE IF ~rows.ok THEN Err
       ELSE Loaded(rows.subgrid)

(***************************************************************************)
(* The program state.                                                      *)
(***************************************************************************)
VARIABLES
    heap,                        \* the TileGrid behind every live Rc<TileGrid>
    current,                     \* EditorState.current: the current Snapshot
    undo_stack,                  \* EditorState.undo_stack
    redo_stack,                  \* EditorState.redo_stack
    clipboard,                   \* EditorState.clipboard
    tool,                        \* EditorState.tool
    prev_tool,                   \* EditorState.prev_tool
    brush,                       \* EditorState.brush
    persistent_mutation_active,  \* EditorState.persistent_mutation_active
    drag_from_to,                \* InnerCanvas.drag_from_to
    panicked,                    \* the process has died of a panic
    view_size,                   \* InnerCanvas.view_size
    overflow_checks,             \* the build panics on integer overflow (debug)
    ev,                          \* the last input event and what its handler returned
    events_left,                 \* input events the run still explores
    gesture,                     \* history: the pencil gesture in progress
    run,                         \* history: the mutation/undo/redo run since start
    swapped,                     \* history: two palette swaps in a row
    saved,                       \* history: what the last successful save or load left on disk
    trial,                       \* a chain of calls of the grid functions
    filepath,                    \* EditorState.filepath
    mode,                        \* ModalTextBox.mode
    text,                        \* the text of the TextBox (the cursor is at its end)
    disk                         \* the files on disk: path -> bytes

stateVars == <<heap, current, undo_stack, redo_stack, clipboard, tool, prev_tool,
               brush, persistent_mutation_active, drag_from_to, panicked,
               view_size, overflow_checks>>
histVars == <<ev, events_left, gesture, run, swapped, saved>>
promptVars == <<filepath, mode, text, disk>>
vars == <<stateVars, histVars, trial, promptVars>>

Tools == {"Pencil", "PaintBucket", "Eyedropper", "Select", "PaletteReplace",
          "PaletteSwap"}

\* Option<(Rc<SubGrid>, Point)>
NoSelection == [some |-> FALSE, subgrid |-> SubGridNew(0, 0), position |-> <<0, 0>>]
SomeSelection(subgrid, position) ==
    [some |-> TRUE, subgrid |-> subgrid, position |-> position]
\* Option<CanvasDrag>
NoDrag == [some |-> FALSE, from_selection |-> <<0, 0>>, from_pixel |-> <<0, 0>>,
           to_pixel |-> <<0, 0>>]

\* The editor state as one value, threaded through the steps of a handler.
St == [heap |-> heap, current |-> current, undo_stack |-> undo_stack,
       redo_stack |-> redo_stack, clipboard |-> clipboard, tool |-> tool,
       prev_tool |-> prev_tool, brush |-> brush,
       persistent_mutation_active |-> persistent_mutation_active,
       panicked |-> panicked]

\* Rc::strong_count of the grid at address a: the snapshots that hold it.
SeqCount(seq, a) == Cardinality({i \in 1..Len(seq) : seq[i].tilegrid = a})
StrongCount(s, a) ==
    (IF s.current.tilegrid = a THEN 1 ELSE 0)
    + SeqCount(s.undo_stack, a) + SeqCount(s.redo_stack, a)
\* Rc::new: the lowest free address.
NewAddr(h) == CHOOSE a \in 1..(Cardinality(DOMAIN h) + 1) :
                 a \notin DOMAIN h /\ \A b \in 1..(a - 1) : b \in DOMAIN h
\* Dropping the last Rc frees the grid.
Live(s) == {s.current.tilegrid}
           \cup {s.undo_stack[i].tilegrid : i \in 1..Len(s.undo_stack)}
           \cup {s.redo_stack[i].tilegrid : i \in 1..Len(s.redo_stack)}
Collect(s) == [s EXCEPT !.heap = [a \in Live(s) |-> s.heap[a]]]

\* EditorState::tilegrid()
tilegrid(s) == s.heap[s.current.tilegrid]

\* History carried by a Snapshot: the grid and the selection it had when it was
\* pushed on a stack.  The current snapshot carries NotPushed.
NotPushed == [tilegrid |-> None, selection |-> NoSelection]
Stamped(s, snapshot) ==
    [snapshot EXCEPT !.as_pushed = [tilegrid |-> s.heap[snapshot.tilegrid],
                                    selection |-> snapshot.selection]]

\* A reset_persistent_mutation that leaves the flag as it is.
reset_persistent_mutation_kept(s) == s

\* EditorState::reset_persistent_mutation
reset_persistent_mutation(s) == [s EXCEPT !.persistent_mutation_active = FALSE]

\* A push_change that drops the oldest entry one push too early.
push_change_early_drop(s) ==
    LET s1 == [s EXCEPT !.persistent_mutation_active = FALSE, !.redo_stack = <<>>]
        s2 == [s1 EXCEPT !.undo_stack =
                  Append(@, [s1.current EXCEPT !.as_pushed =
                                [tilegrid |-> s1.heap[s1.current.tilegrid],
                                 selection |-> s1.current.selection]])]
    IN IF Len(s2.undo_stack) >= MAX_UNDOS
       THEN [s2 EXCEPT !.undo_stack = Tail(s2.undo_stack)]
       ELSE s2

\* A push_change that, when the stack is full, discards the snapshot it pushed.
push_change_drop_newest(s) ==
    LET s1 == [s EXCEPT !.persistent_mutation_active = FALSE, !.redo_stack = <<>>]
    IN IF Len(s1.undo_stack) >= MAX_UNDOS THEN s1
       ELSE [s1 EXCEPT !.undo_stack =
                Append(@, [s1.current EXCEPT !.as_pushed =
                              [tilegrid |-> s1.heap[s1.current.tilegrid],
                               selection |-> s1.current.selection]])]

\* A push_change that never drops the oldest entry.
push_change_uncapped(s) ==
    LET s1 == reset_persistent_mutation(s)
        s2 == [s1 EXCEPT !.redo_stack = <<>>]
    IN [s2 EXCEPT !.undo_stack = Append(s2.undo_stack, Stamped(s2, s2.current))]

\* EditorState::push_change
push_change(s) ==
    LET s1 == reset_persistent_mutation(s)
        s2 == [s1 EXCEPT !.redo_stack = <<>>]
        s3 == [s2 EXCEPT !.undo_stack = Append(s2.undo_stack,
                                               Stamped(s2, s2.current))]
    IN IF Len(s3.undo_stack) > MAX_UNDOS
       THEN [s3 EXCEPT !.undo_stack = Tail(s3.undo_stack)]
       ELSE s3

\* A mutation that leaves the unsaved flag as it is.
mutation_unmarked(s) == push_change(s)

\* EditorState::mutation
mutation(s) == [push_change(s) EXCEPT !.current.unsaved = TRUE]

\* A persistent_mutation that pushes on every call.
persistent_mutation_pushing(s) == mutation(s)

\* EditorState::persistent_mutation
persistent_mutation(s) ==
    LET s1 == IF ~s.persistent_mutation_active
              THEN [push_change(s) EXCEPT !.persistent_mutation_active = TRUE]
              ELSE s
    IN [s1 EXCEPT !.current.unsaved = TRUE]

\* A make_mut that never clones: the write goes to the shared grid.
make_mut_in_place(s) == s

\* Rc::make_mut(&mut current.tilegrid): clone the grid unless this Rc is the
\* only one holding it.
make_mut(s) ==
    IF StrongCount(s, s.current.tilegrid) = 1 THEN s
    ELSE LET a == NewAddr(s.heap)
         IN [s EXCEPT !.heap = [b \in DOMAIN s.heap \cup {a} |->
                                   IF b = a THEN s.heap[s.current.tilegrid]
                                   ELSE s.heap[b]],
                      !.current.tilegrid = a]

\* Mutation::tilegrid(), followed by a write of tg through the &mut TileGrid.
WriteGrid(s, tg) ==
    LET s1 == make_mut(s) IN [s1 EXCEPT !.heap[s1.current.tilegrid] = tg]

\* Mutation::unselect
unselect(s) ==
    IF s.current.selection.some
    THEN LET sel == s.current.selection
             s1 == [s EXCEPT !.current.selection = NoSelection]
         IN WriteGrid(s1, paste_subgrid(tilegrid(s1), sel.subgrid, sel.position))
    ELSE s

\* A select that drops the selection that floats instead of pasting it.
select_dropping(s, rect, checks) ==
    LET s1 == [s EXCEPT !.current.selection = NoSelection]
        cut == cut_subgrid(tilegrid(s1), rect, checks)
        s2 == WriteGrid(s1, cut.tilegrid)
    IN IF cut.panic THEN [s2 EXCEPT !.panicked = TRUE]
       ELSE [s2 EXCEPT !.current.selection =
                          SomeSelection(cut.subgrid, <<rect.x, rect.y>>),
                       !.prev_tool = s2.tool,
                       !.tool = "Select"]

\* Mutation::select(rect); checks as overflow_checks of ClipSubgrid.
select(s, rect, checks) ==
    LET s1 == unselect(s)
        cut == cut_subgrid(tilegrid(s1), rect, checks)
        s2 == WriteGrid(s1, cut.tilegrid)
    IN IF cut.panic THEN [s2 EXCEPT !.panicked = TRUE]
       ELSE [s2 EXCEPT !.current.selection =
                          SomeSelection(cut.subgrid, <<rect.x, rect.y>>),
                       !.prev_tool = s2.tool,
                       !.tool = "Select"]

\* Mutation::select_all
select_all(s, checks) ==
    select(s, Rect(0, 0, GRID_DEFAULT_NUM_COLS, GRID_DEFAULT_NUM_ROWS), checks)

\* Mutation::delete_selection
delete_selection(s) == [s EXCEPT !.current.selection = NoSelection]

\* Mutation::reposition_selection
reposition_selection(s, new_position) ==
    IF s.current.selection.some
    THEN [s EXCEPT !.current.selection.position = new_position]
    ELSE s

\* Mutation::cut_selection; checks as overflow_checks of ClipSubgrid.
cut_selection(s, checks) ==
    IF s.current.selection.some
    THEN [s EXCEPT !.clipboard = s.current.selection,
                   !.current.selection = NoSelection]
    ELSE LET rect == Rect(0, 0, GRID_DEFAULT_NUM_COLS, GRID_DEFAULT_NUM_ROWS)
             cut == cut_subgrid(tilegrid(s), rect, checks)
             s1 == WriteGrid(s, cut.tilegrid)
         IN IF cut.panic THEN [s1 EXCEPT !.panicked = TRUE]
            ELSE [s1 EXCEPT !.clipboard = SomeSelection(cut.subgrid, <<0, 0>>)]

\* Mutation::copy_selection
copy_selection(s, checks) ==
    IF s.current.selection.some
    THEN [s EXCEPT !.clipboard = s.current.selection]
    ELSE LET rect == Rect(0, 0, GRID_DEFAULT_NUM_COLS, GRID_DEFAULT_NUM_ROWS)
             copy == copy_subgrid(tilegrid(s), rect, checks)
         IN IF copy.panic THEN [s EXCEPT !.panicked = TRUE]
            ELSE [s EXCEPT !.clipboard = SomeSelection(copy.subgrid, <<0, 0>>)]

\* A paste_selection that moves the clipboard into the selection.
paste_selection_taking(s) ==
    IF s.clipboard.some
    THEN LET s1 == unselect(s)
         IN [s1 EXCEPT !.current.selection = s1.clipboard, !.tool = "Select",
                       !.clipboard = NoSelection]
    ELSE s

\* A paste_selection that floats the clipboard and leaves the tool.
paste_selection_keeping_tool(s) ==
    IF s.clipboard.some
    THEN LET s1 == unselect(s)
         IN [s1 EXCEPT !.current.selection = s1.clipboard]
    ELSE s

\* Mutation::paste_selection
paste_selection(s) ==
    IF s.clipboard.some
    THEN LET s1 == unselect(s)
         IN [s1 EXCEPT !.current.selection = s1.clipboard, !.tool = "Select"]
    ELSE s

\* EditorState::unselect_if_necessary
unselect_if_necessary(s) ==
    LET s1 == reset_persistent_mutation(s)
    IN IF s1.current.selection.some THEN unselect(mutation(s1)) ELSE s1

\* A set_tool that switches the tool and leaves the selection floating.
set_tool_keeping_selection(s, t) ==
    IF s.tool # t THEN [s EXCEPT !.prev_tool = s.tool, !.tool = t] ELSE s

\* EditorState::set_tool
set_tool(s, t) ==
    IF s.tool # t
    THEN LET s1 == unselect_if_necessary(s)
         IN [s1 EXCEPT !.prev_tool = s1.tool, !.tool = t]
    ELSE s

\* EditorState::set_brush
set_brush(s, tile) == [s EXCEPT !.brush = tile]

\* An eyedrop that goes back to the previous tool whatever it was.
eyedrop_to_prev_tool(s, position) ==
    LET s1 == [s EXCEPT !.brush = At(tilegrid(s).subgrid, position[1], position[2])]
    IN IF s1.tool = "Eyedropper" THEN [s1 EXCEPT !.tool = s1.prev_tool] ELSE s1

\* EditorState::eyedrop
eyedrop(s, position) ==
    LET s1 == [s EXCEPT !.brush = At(tilegrid(s).subgrid, position[1], position[2])]
    IN IF s1.tool = "Eyedropper"
       THEN [s1 EXCEPT !.tool = IF s1.prev_tool = "Select" THEN "Pencil"
                                 ELSE s1.prev_tool]
       ELSE s1

\* A swap that leaves the tool as it is.
SwapHistory_keeping_tool(s, from, to) ==
    LET snapshot == from[Len(from)]
    IN [state |-> [s EXCEPT !.current = [snapshot EXCEPT !.as_pushed = NotPushed]],
        from |-> SubSeq(from, 1, Len(from) - 1),
        to |-> Append(to, Stamped(s, s.current))]

\* A swap that drops the snapshot that was current.
SwapHistory_forgetting(s, from, to) ==
    LET snapshot == from[Len(from)]
        s1 == [s EXCEPT !.current = [snapshot EXCEPT !.as_pushed = NotPushed]]
    IN [state |-> IF s1.current.selection.some THEN [s1 EXCEPT !.tool = "Select"]
                  ELSE s1,
        from |-> SubSeq(from, 1, Len(from) - 1),
        to |-> to]

\* The body of EditorState::undo and EditorState::redo: pop `from`, swap the
\* popped snapshot with current, push the old current onto `to`.
SwapHistory(s, from, to) ==
    LET snapshot == from[Len(from)]
        s1 == [s EXCEPT !.current = [snapshot EXCEPT !.as_pushed = NotPushed]]
    IN [state |-> IF s1.current.selection.some THEN [s1 EXCEPT !.tool = "Select"]
                  ELSE s1,
        from |-> SubSeq(from, 1, Len(from) - 1),
        to |-> Append(to, Stamped(s, s.current))]

\* An undo that, with nothing to undo, forgets what could be redone.
undo_dropping_redo(s) ==
    IF s.undo_stack # <<>>
    THEN LET r == SwapHistory(s, s.undo_stack, s.redo_stack)
         IN [r.state EXCEPT !.undo_stack = r.from, !.redo_stack = r.to]
    ELSE [s EXCEPT !.redo_stack = <<>>]

\* EditorState::undo
undo(s) ==
    IF s.undo_stack # <<>>
    THEN LET r == SwapHistory(s, s.undo_stack, s.redo_stack)
         IN [r.state EXCEPT !.undo_stack = r.from, !.redo_stack = r.to]
    ELSE s

\* EditorState::redo
redo(s) ==
    IF s.redo_stack # <<>>
    THEN LET r == SwapHistory(s, s.redo_stack, s.undo_stack)
         IN [r.state EXCEPT !.redo_stack = r.from, !.undo_stack = r.to]
    ELSE s

(***************************************************************************)
(* The grid canvas (paint.rs).                                             *)
(***************************************************************************)
NoPosition == [some |-> FALSE, pos |-> <<0, 0>>]

\* InnerCanvas::mouse_to_row_col
mouse_to_row_col(mouse, tg) ==
    IF mouse[1] < 0 \/ mouse[2] < 0 THEN NoPosition
    ELSE LET x == TruncDiv(mouse[1], tg.tileset.tile_size)
             y == TruncDiv(mouse[2], tg.tileset.tile_size)
         IN IF x < 0 \/ x >= tg.subgrid.width \/ y < 0 \/ y >= tg.subgrid.height
            THEN NoPosition
            ELSE [some |-> TRUE, pos |-> <<x, y>>]

\* InnerCanvas::clamp_mouse_to_row_col
clamp_mouse_to_row_col(mouse, tg) ==
    LET x == TruncDiv(mouse[1], tg.tileset.tile_size)
        y == TruncDiv(mouse[2], tg.tileset.tile_size)
    IN <<AsU32(Max(0, Min(x, tg.subgrid.width - 1))),
         AsU32(Max(0, Min(y, tg.subgrid.height - 1)))>>

\* InnerCanvas::dragged_rect (with dragged_points), for a drag that is Some.
dragged_rect(drag, tg) ==
    LET from == clamp_mouse_to_row_col(drag.from_pixel, tg)
        to == clamp_mouse_to_row_col(drag.to_pixel, tg)
        abs(n) == IF n < 0 THEN -n ELSE n
    IN Rect(Min(from[1], to[1]), Min(from[2], to[2]),
            abs(from[1] - to[1]) + 1, abs(from[2] - to[2]) + 1)

\* What a handler leaves behind: the state, whether it reported a change, and
\* the kind of mutation handle it took ("none", "mutation", "persistent").
Outcome(s, changed, handle) == [state |-> s, changed |-> changed, handle |-> handle]

\* InnerCanvas::try_paint
try_paint(s, mouse) ==
    LET p == mouse_to_row_col(mouse, tilegrid(s))
    IN IF p.some
       THEN LET s1 == persistent_mutation(s)
            IN Outcome(WriteGrid(s1, [tilegrid(s1) EXCEPT !.subgrid =
                                        SetAt(@, p.pos[1], p.pos[2], s.brush)]),
                       TRUE, "persistent")
       ELSE Outcome(s, FALSE, "none")

\* InnerCanvas::try_eyedrop
try_eyedrop(s, mouse) ==
    LET p == mouse_to_row_col(mouse, tilegrid(s))
    IN IF p.some THEN Outcome(eyedrop(s, p.pos), TRUE, "none")
       ELSE Outcome(s, FALSE, "none")

\* Neighbours without the cell below.
FillNeighbours_no_down(sg, col, row) ==
    (IF col > 0 THEN <<(<<col - 1, row>>)>> ELSE <<>>)
    \o (IF col < sg.width - 1 THEN <<(<<col + 1, row>>)>> ELSE <<>>)
    \o (IF row > 0 THEN <<(<<col, row - 1>>)>> ELSE <<>>)

\* The neighbours pushed on `next` in try_flood_fill, in the code's order.
FillNeighbours(sg, col, row) ==
    (IF col > 0 THEN <<(<<col - 1, row>>)>> ELSE <<>>)
    \o (IF col < sg.width - 1 THEN <<(<<col + 1, row>>)>> ELSE <<>>)
    \o (IF row > 0 THEN <<(<<col, row - 1>>)>> ELSE <<>>)
    \o (IF row < sg.height - 1 THEN <<(<<col, row + 1>>)>> ELSE <<>>)

\* A visit that pushes the cells that hold the seed's tile and repaints none.
RECURSIVE FillVisit_unpainted(_, _, _, _, _, _)
FillVisit_unpainted(sg, stack, next, i, from_tile, to_tile) ==
    IF i > Len(next) THEN [subgrid |-> sg, stack |-> stack]
    ELSE LET c == next[i]
         IN IF At(sg, c[1], c[2]) = from_tile
            THEN FillVisit_unpainted(sg, Append(stack, c), next, i + 1,
                                     from_tile, to_tile)
            ELSE FillVisit_unpainted(sg, stack, next, i + 1, from_tile, to_tile)

\* `for coords in next { ... }` of try_flood_fill, from the i-th element on:
\* the grid and the work stack afterwards.
RECURSIVE FillVisit(_, _, _, _, _, _)
FillVisit(sg, stack, next, i, from_tile, to_tile) ==
    IF i > Len(next) THEN [subgrid |-> sg, stack |-> stack]
    ELSE LET c == next[i]
         IN IF At(sg, c[1], c[2]) = from_tile
            THEN FillVisit(SetAt(sg, c[1], c[2], to_tile), Append(stack, c),
                           next, i + 1, from_tile, to_tile)
            ELSE FillVisit(sg, stack, next, i + 1, from_tile, to_tile)

\* `while let Some((col, row)) = stack.pop() { ... }` of try_flood_fill.
RECURSIVE FillLoop(_, _, _, _)
FillLoop(sg, stack, from_tile, to_tile) ==
    IF stack = <<>> THEN sg
    ELSE LET top == stack[Len(stack)]
             v == FillVisit(sg, SubSeq(stack, 1, Len(stack) - 1),
                            FillNeighbours(sg, top[1], top[2]), 1,
                            from_tile, to_tile)
         IN FillLoop(v.subgrid, v.stack, from_tile, to_tile)

\* A flood fill that does not compare the seed's tile with the brush.
try_flood_fill_unchecked(s, mouse) ==
    LET p == mouse_to_row_col(mouse, tilegrid(s))
        to_tile == s.brush
        from_tile == At(tilegrid(s).subgrid, p.pos[1], p.pos[2])
    IN IF ~p.some THEN Outcome(s, FALSE, "none")
       ELSE LET s1 == mutation(s)
                start == SetAt(tilegrid(s1).subgrid, p.pos[1], p.pos[2], to_tile)
            IN Outcome(WriteGrid(s1, [tilegrid(s1) EXCEPT !.subgrid = start]),
                       TRUE, "mutation")

\* InnerCanvas::try_flood_fill
try_flood_fill(s, mouse) ==
    LET p == mouse_to_row_col(mouse, tilegrid(s))
        to_tile == s.brush
        from_tile == At(tilegrid(s).subgrid, p.pos[1], p.pos[2])
    IN IF ~p.some THEN Outcome(s, FALSE, "none")
       ELSE IF from_tile = to_tile THEN Outcome(s, FALSE, "none")
       ELSE LET s1 == mutation(s)
                start == SetAt(tilegrid(s1).subgrid, p.pos[1], p.pos[2], to_tile)
            IN Outcome(WriteGrid(s1, [tilegrid(s1) EXCEPT !.subgrid =
                                        FillLoop(start, <<p.pos>>, from_tile, to_tile)]),
                       TRUE, "mutation")

\* A scan that replaces and never swaps.
PaletteScan_replacing(sg, from_tile, to_tile, swap) ==
    [sg EXCEPT !.grid = [i \in 1..Len(sg.grid) |->
        IF sg.grid[i] = from_tile THEN to_tile ELSE sg.grid[i]]]

\* The scan of try_palette_replace over every cell of the grid.
PaletteScan(sg, from_tile, to_tile, swap) ==
    [sg EXCEPT !.grid = [i \in 1..Len(sg.grid) |->
        IF sg.grid[i] = from_tile THEN to_tile
        ELSE IF swap /\ sg.grid[i] = to_tile THEN from_tile
        ELSE sg.grid[i]]]

\* A try_palette_replace that leaves the brush as it is.
try_palette_replace_keeping_brush(s, mouse, swap) ==
    LET p == mouse_to_row_col(mouse, tilegrid(s))
        to_tile == s.brush
        from_tile == At(tilegrid(s).subgrid, p.pos[1], p.pos[2])
    IN IF ~p.some THEN Outcome(s, FALSE, "none")
       ELSE IF from_tile = to_tile THEN Outcome(s, FALSE, "none")
       ELSE LET s1 == mutation(s)
            IN Outcome(WriteGrid(s1, [tilegrid(s1) EXCEPT !.subgrid =
                                        PaletteScan(@, from_tile, to_tile, swap)]),
                       TRUE, "mutation")

\* InnerCanvas::try_palette_replace
try_palette_replace(s, mouse, swap) ==
    LET p == mouse_to_row_col(mouse, tilegrid(s))
        to_tile == s.brush
        from_tile == At(tilegrid(s).subgrid, p.pos[1], p.pos[2])
    IN IF ~p.some THEN Outcome(s, FALSE, "none")
       ELSE IF from_tile = to_tile THEN Outcome(s, FALSE, "none")
       ELSE LET s1 == mutation(set_brush(s, from_tile))
            IN Outcome(WriteGrid(s1, [tilegrid(s1) EXCEPT !.subgrid =
                                        PaletteScan(@, from_tile, to_tile, swap)]),
                       TRUE, "mutation")

\* `let horz_margin = 3; let vert_margin = 2;` of InnerCanvas::draw
horz_margin == 3
vert_margin == 2

\* The view size after Cmd+Shift+R.
NextViewSize(view) ==
    CASE view = "Small" -> "Wide"
      [] view = "Wide" -> "Tall"
      [] view = "Tall" -> "Full"
      [] view = "Full" -> "Margin"
      [] view = "Margin" -> "Small"

\* InnerCanvas::draw: whether it indexes the grid out of range, and whether
\* it overflows a u32 in a build that checks (the ranges wrap otherwise).
draw(view, tg, checks) ==
    LET w == tg.subgrid.width
        h == tg.subgrid.height
        row_start == IF view \in {"Small", "Wide"} THEN vert_margin ELSE 0
        row_end == IF view \in {"Small", "Wide"} THEN AsU32(h - vert_margin) ELSE h
        col_start == IF view \in {"Small", "Tall"} THEN horz_margin ELSE 0
        col_end == IF view \in {"Small", "Tall"} THEN AsU32(w - horz_margin) ELSE w
        \* the ranges, then the sizes of the rectangle that is filled
        overflow_before == \/ (view \in {"Small", "Wide"} /\ h < vert_margin)
                           \/ (view \in {"Small", "Tall"} /\ w < horz_margin)
                           \/ col_end < col_start
                           \/ row_end < row_start
        \* `for row in row_range { for col in col_range { tilegrid[(col, row)] } }`
        outside == /\ row_start < row_end /\ col_start < col_end
                   /\ (row_end > h \/ col_end > w)
        \* the rectangle of the Margin view
        overflow_after == view = "Margin"
                          /\ (w < 2 * horz_margin \/ h < 2 * vert_margin)
    IN [index_panic |-> outside /\ ~(checks /\ overflow_before),
        overflow_panic |-> checks /\ (overflow_before \/ overflow_after)]

(***************************************************************************)
(* Input events.  Each action is one event handled to completion.          *)
(***************************************************************************)
Event(kind, pt, arg, out) ==
    [kind |-> kind, pt |-> pt, arg |-> arg, tool |-> tool,
     changed |-> out.changed, handle |-> out.handle]

\* InnerCanvas::handle_event, Event::MouseDown(pt): the outcome and the drag.
OnMouseDown(s, pt) ==
    CASE s.tool = "Eyedropper" -> [out |-> try_eyedrop(s, pt), drag |-> drag_from_to]
      [] s.tool = "PaintBucket" -> [out |-> try_flood_fill(s, pt), drag |-> drag_from_to]
      [] s.tool = "PaletteReplace" ->
            [out |-> try_palette_replace(s, pt, FALSE), drag |-> drag_from_to]
      [] s.tool = "PaletteSwap" ->
            [out |-> try_palette_replace(s, pt, TRUE), drag |-> drag_from_to]
      [] s.tool = "Pencil" ->
            [out |-> try_paint(reset_persistent_mutation(s), pt), drag |-> drag_from_to]
      [] s.tool = "Select" ->
            LET sel == s.current.selection
                ts == tilegrid(s).tileset.tile_size
                rect == Rect(sel.position[1], sel.position[2],
                             sel.subgrid.width, sel.subgrid.height)
                inside == RectContains(Rect(rect.x * ts, rect.y * ts,
                                            rect.w * ts, rect.h * ts), pt)
                out == IF ~sel.some THEN Outcome(s, TRUE, "none")
                       ELSE IF ~inside THEN Outcome(unselect(mutation(s)), TRUE, "mutation")
                       ELSE Outcome(reset_persistent_mutation(s), TRUE, "none")
            IN [out |-> out,
                drag |-> [some |-> TRUE,
                          from_selection |-> IF sel.some THEN <<rect.x, rect.y>>
                                             ELSE <<0, 0>>,
                          from_pixel |-> pt, to_pixel |-> pt]]

\* InnerCanvas::handle_event, Event::MouseUp.
OnMouseUp(s) ==
    IF s.tool = "Select" /\ ~s.current.selection.some /\ drag_from_to.some
    THEN [out |-> Outcome(select(mutation(s), dragged_rect(drag_from_to, tilegrid(s)),
                                 overflow_checks), TRUE, "mutation"),
          drag |-> NoDrag]
    ELSE [out |-> Outcome(s, FALSE, "none"), drag |-> NoDrag]

\* InnerCanvas::handle_event, Event::MouseDrag(pt).
OnMouseDrag(s, pt) ==
    CASE s.tool = "Pencil" -> [out |-> try_paint(s, pt), drag |-> drag_from_to]
      [] s.tool = "Select" ->
            IF drag_from_to.some
            THEN LET drag == [drag_from_to EXCEPT !.to_pixel = pt]
                     ts == tilegrid(s).tileset.tile_size
                     position ==
                         <<drag.from_selection[1]
                             + TruncDiv(pt[1] - drag.from_pixel[1], ts),
                           drag.from_selection[2]
                             + TruncDiv(pt[2] - drag.from_pixel[2], ts)>>
                 IN [out |-> IF s.current.selection.some
                             THEN Outcome(reposition_selection(persistent_mutation(s),
                                                               position),
                                          TRUE, "persistent")
                             ELSE Outcome(s, TRUE, "none"),
                     drag |-> drag]
            ELSE [out |-> Outcome(s, FALSE, "none"), drag |-> drag_from_to]
      [] OTHER -> [out |-> Outcome(s, FALSE, "none"), drag |-> drag_from_to]

\* The grid of the current snapshot, by value.
Grid(s) == tilegrid(s).subgrid

\* History of the pencil gesture in progress: a mouse-down with the pencil,
\* then only mouse-drags, then possibly one undo.
NoGesture == [phase |-> "none", painted |-> FALSE, before |-> SubGridNew(0, 0),
              undo_len |-> 0]
NextGesture(e, s0, s1) ==
    IF e.kind = "MouseDown" /\ e.tool = "Pencil"
    THEN [phase |-> "drawing", painted |-> e.changed, before |-> Grid(s0),
          undo_len |-> Len(s0.undo_stack)]
    ELSE IF e.kind = "MouseDrag" /\ gesture.phase = "drawing"
    THEN [gesture EXCEPT !.painted = @ \/ e.changed]
    ELSE IF e.kind = "Undo" /\ gesture.phase = "drawing" /\ gesture.painted
    THEN [gesture EXCEPT !.phase = "undone"]
    ELSE NoGesture

\* History of a run that starts in the initial state: N handlers that each
\* took one mutation(), then undo() calls, then, after N of them, redo() calls.
\* trail[i + 1] is the grid after the i-th mutation.
NoRun == [phase |-> "void", trail |-> <<>>, calls |-> 0]
NextRun(e, s0, s1) ==
    LET n == Len(run.trail) - 1
    IN CASE run.phase = "edit" /\ e.handle = "mutation" ->
               [run EXCEPT !.trail = Append(@, Grid(s1))]
         [] run.phase = "edit" /\ e.kind = "Undo" /\ n > 0 ->
               [run EXCEPT !.phase = "undo", !.calls = 1]
         [] run.phase = "undo" /\ e.kind = "Undo" /\ run.calls < n ->
               [run EXCEPT !.calls = @ + 1]
         [] run.phase = "undo" /\ e.kind = "Redo" /\ run.calls = n ->
               [run EXCEPT !.phase = "redo", !.calls = 1]
         [] run.phase = "redo" /\ e.kind = "Redo" /\ run.calls < n ->
               [run EXCEPT !.calls = @ + 1]
         [] OTHER -> NoRun

\* History of two palette-swap clicks in a row on one cell: the grid before the
\* first click, which found a tile other than the brush.
NoSwap == [phase |-> 0, pt |-> <<0, 0>>, before |-> SubGridNew(0, 0)]
NextSwapped(e, s0, s1) ==
    IF e.kind = "MouseDown" /\ e.tool = "PaletteSwap" /\ swapped.phase = 1
       /\ e.pt = swapped.pt
    THEN [swapped EXCEPT !.phase = 2]
    ELSE IF e.kind = "MouseDown" /\ e.tool = "PaletteSwap" /\ e.changed
    THEN [phase |-> 1, pt |-> e.pt, before |-> Grid(s0)]
    ELSE NoSwap

\* History of the document on disk: the grid that the file of the last
\* successful save, save-as or load holds, as TileGrid::load reads it.
NoneSaved == [some |-> FALSE, tilegrid |-> TileGridNew(TilesetA)]
NextSaved(e, path, d) ==
    IF \/ e.kind = "Save" /\ e.changed
       \/ e.kind = "Return" /\ e.arg \in {"LoadFile", "SaveAs"} /\ e.changed
    THEN [some |-> TRUE, tilegrid |-> load(d[path]).tilegrid]
    ELSE saved

\* One event handled: the state the handler leaves, the file path, the prompt
\* and the disk it leaves, and the history of it.
HandledWith(e, s1, drag, path, m, t, d) ==
    LET s2 == Collect(s1)
        view == IF e.kind = "ViewSize" THEN NextViewSize(view_size) ELSE view_size
        drawn == draw(view, tilegrid(s2), overflow_checks)
    IN /\ events_left > 0
       /\ heap' = s2.heap
       /\ current' = s2.current
       /\ undo_stack' = s2.undo_stack
       /\ redo_stack' = s2.redo_stack
       /\ clipboard' = s2.clipboard
       /\ tool' = s2.tool
       /\ prev_tool' = s2.prev_tool
       /\ brush' = s2.brush
       /\ persistent_mutation_active' = s2.persistent_mutation_active
       /\ panicked' = (s2.panicked \/ drawn.index_panic \/ drawn.overflow_panic)
       /\ view_size' = view
       /\ drag_from_to' = drag
       /\ UNCHANGED overflow_checks
       /\ ev' = e
       /\ events_left' = events_left - 1
       /\ gesture' = NextGesture(e, St, s2)
       /\ run' = NextRun(e, St, s2)
       /\ swapped' = NextSwapped(e, St, s2)
       /\ saved' = NextSaved(e, path, d)
       /\ filepath' = path
       /\ mode' = m
       /\ text' = t
       /\ disk' = d
       /\ UNCHANGED trial

\* An event whose handler touches neither the file path, the prompt nor the disk.
Handled(e, s1, drag) == HandledWith(e, s1, drag, filepath, mode, text, disk)

\* The pixel positions of the mouse events explored: three cells of the grid,
\* a point left of the canvas and a point right of the grid.
MousePoints == {<<4, 4>>, <<12, 4>>, <<12, 12>>, <<-4, 4>>,
                <<GRID_DEFAULT_NUM_COLS * DEFAULT_TILE_SIZE + 4, 4>>}

CanvasMouseDown(pt) ==
    /\ ~panicked
    /\ mode = "Edit"
    /\ LET r == OnMouseDown(St, pt)
       IN Handled(Event("MouseDown", pt, "", r.out), r.out.state, r.drag)

CanvasMouseDrag(pt) ==
    /\ ~panicked
    /\ mode = "Edit"
    /\ LET r == OnMouseDrag(St, pt)
       IN Handled(Event("MouseDrag", pt, "", r.out), r.out.state, r.drag)

CanvasMouseUp ==
    /\ ~panicked
    /\ mode = "Edit"
    /\ LET r == OnMouseUp(St)
       IN Handled(Event("MouseUp", <<0, 0>>, "", r.out), r.out.state, r.drag)

\* main loop / EditorView::on_event, Cmd+Z: state.undo()
KeyUndo ==
    /\ ~panicked
    /\ Handled(Event("Undo", <<0, 0>>, "", Outcome(St, undo_stack # <<>>, "none")),
               undo(St), drag_from_to)

\* main loop / EditorView::on_event, Cmd+Shift+Z: state.redo()
KeyRedo ==
    /\ ~panicked
    /\ Handled(Event("Redo", <<0, 0>>, "", Outcome(St, redo_stack # <<>>, "none")),
               redo(St), drag_from_to)

\* main loop / EditorView::on_event, Cmd+A: state.mutation().select_all()
KeySelectAll ==
    /\ ~panicked
    /\ Handled(Event("SelectAll", <<0, 0>>, "", Outcome(St, TRUE, "mutation")),
               select_all(mutation(St), overflow_checks), drag_from_to)

\* EditorView::on_event, Cmd+C: state.mutation().copy_selection()
KeyCopy ==
    /\ ~panicked
    /\ Handled(Event("Copy", <<0, 0>>, "", Outcome(St, FALSE, "mutation")),
               copy_selection(mutation(St), overflow_checks), drag_from_to)

\* EditorView::on_event, Cmd+X: state.mutation().cut_selection()
KeyCut ==
    /\ ~panicked
    /\ Handled(Event("Cut", <<0, 0>>, "", Outcome(St, TRUE, "mutation")),
               cut_selection(mutation(St), overflow_checks), drag_from_to)

\* EditorView::on_event, Cmd+V: state.mutation().paste_selection()
KeyPaste ==
    /\ ~panicked
    /\ Handled(Event("Paste", <<0, 0>>, "", Outcome(St, TRUE, "mutation")),
               paste_selection(mutation(St)), drag_from_to)

\* InnerCanvas::handle_event, Cmd+Shift+R: the next view size
KeyViewSize ==
    /\ ~panicked
    /\ mode = "Edit"
    /\ Handled(Event("ViewSize", <<0, 0>>, "", Outcome(St, TRUE, "none")),
               St, drag_from_to)

\* InnerCanvas::handle_event, KeyDown(Escape)
KeyEscape ==
    /\ ~panicked
    /\ mode = "Edit"
    /\ LET out == IF current.selection.some
                  THEN Outcome(unselect(mutation(St)), TRUE, "mutation")
                  ELSE Outcome(St, FALSE, "none")
       IN Handled(Event("Escape", <<0, 0>>, "", out), out.state, drag_from_to)

\* InnerCanvas::handle_event, KeyDown(Backspace)
KeyBackspace ==
    /\ ~panicked
    /\ mode = "Edit"
    /\ LET out == IF current.selection.some
                  THEN Outcome(delete_selection(mutation(St)), TRUE, "mutation")
                  ELSE Outcome(St, FALSE, "none")
       IN Handled(Event("Backspace", <<0, 0>>, "", out), out.state, drag_from_to)

\* Toolbox::on_event: a click or key of the picker of tool t.
ToolboxPick(t) ==
    /\ ~panicked
    /\ mode = "Edit"
    /\ LET s1 == IF t # tool THEN set_tool(St, t) ELSE St
       IN Handled(Event("PickTool", <<0, 0>>, t,
                        Outcome(St, TRUE, IF t # tool /\ current.selection.some
                                          THEN "mutation" ELSE "none")),
                  s1, drag_from_to)

\* TilePalette::on_event: a click on the eraser or on the tile b of the palette.
PalettePick(b) ==
    /\ ~panicked
    /\ mode = "Edit"
    /\ LET s1 == IF b # brush
                 THEN LET s2 == set_brush(St, b)
                      IN IF s2.tool = "Select" THEN set_tool(s2, "Pencil") ELSE s2
                 ELSE St
       IN Handled(Event("PickBrush", <<0, 0>>, "",
                        Outcome(St, TRUE, IF b # brush /\ tool = "Select"
                                             /\ current.selection.some
                                          THEN "mutation" ELSE "none")),
                  s1, drag_from_to)

(***************************************************************************)
(* Files on disk, the modal text box and the commands of the editor view   *)
(* (state.rs, editor.rs, textbox.rs).                                      *)
(***************************************************************************)
\* const MAX_GRID_WIDTH: u32 = 100, const MAX_GRID_HEIGHT: u32 = 100
MAX_GRID_WIDTH == 100
MAX_GRID_HEIGHT == 100

\* File::create(path) fails for a path that names a directory.
CanCreate(path) == path # <<>> /\ path[Len(path)] # Byte.slash

\* TileGrid::load_from_path: File::open(path)?, then TileGrid::load.
load_from_path(d, path) == IF path \in DOMAIN d THEN load(d[path]) ELSE Err

\* A save_to_file that marks the current snapshot saved and leaves the flags
\* of the snapshots on the stacks.
save_to_file_keeping_flags(s, path, d, write_ok) ==
    LET Saved(s1) == [s1 EXCEPT !.current.unsaved = FALSE]
        Write(s1, written) ==
            IF ~CanCreate(path) THEN [ok |-> FALSE, state |-> s1, disk |-> d]
            ELSE IF written.panic
            THEN [ok |-> FALSE, state |-> [s1 EXCEPT !.panicked = TRUE],
                  disk |-> (path :> written.bytes) @@ d]
            ELSE IF ~write_ok
            THEN [ok |-> FALSE, state |-> s1, disk |-> (path :> <<>>) @@ d]
            ELSE [ok |-> TRUE, state |-> Saved(s1), disk |-> (path :> written.bytes) @@ d]
        Unselected(s1) == Write(s1, save(tilegrid(s1)))
    IN Unselected(unselect_if_necessary(s))

\* EditorState::save_to_file with the file path `path` on the disk d.  write_ok
\* tells whether the writes to the created file succeed.  The result is the
\* io::Result, the state and the disk afterwards.
save_to_file(s, path, d, write_ok) ==
    LET Saved(s1) ==
            [s1 EXCEPT !.current.unsaved = FALSE,
                       !.undo_stack = [i \in 1..Len(s1.undo_stack) |->
                                          [s1.undo_stack[i] EXCEPT !.unsaved = TRUE]],
                       !.redo_stack = [i \in 1..Len(s1.redo_stack) |->
                                          [s1.redo_stack[i] EXCEPT !.unsaved = TRUE]]]
        Write(s1, written) ==
            IF ~CanCreate(path) THEN [ok |-> FALSE, state |-> s1, disk |-> d]
            ELSE IF written.panic
            THEN [ok |-> FALSE, state |-> [s1 EXCEPT !.panicked = TRUE],
                  disk |-> (path :> written.bytes) @@ d]
            ELSE IF ~write_ok
            THEN [ok |-> FALSE, state |-> s1, disk |-> (path :> <<>>) @@ d]
            ELSE [ok |-> TRUE, state |-> Saved(s1), disk |-> (path :> written.bytes) @@ d]
        Unselected(s1) == Write(s1, save(tilegrid(s1)))
    IN Unselected(unselect_if_necessary(s))

\* The Ok branch of the load prompt: the loaded grid replaces the current one.
load_tilegrid(s, tg) ==
    LET a == NewAddr(s.heap)
    IN [s EXCEPT !.heap = (a :> tg) @@ s.heap,
                 !.current.tilegrid = a,
                 !.current.unsaved = FALSE,
                 !.undo_stack = <<>>,
                 !.redo_stack = <<>>,
                 !.brush = None,
                 !.persistent_mutation_active = FALSE]

\* str::split(sep): the pieces between the separators, at least one.
RECURSIVE Split(_, _)
Split(bytes, sep) ==
    LET hits == {i \in 1..Len(bytes) : bytes[i] = sep}
    IN IF hits = {} THEN <<bytes>>
       ELSE LET i == CHOOSE i \in hits : \A j \in hits : i <= j
            IN <<SubSeq(bytes, 1, i - 1)>> \o Split(SubSeq(bytes, i + 1, Len(bytes)), sep)

\* str::parse::<u8>() (max 255) and str::parse::<u32>(): an optional '+', then
\* one digit or more, no overflow; -1 stands for Err.
RECURSIVE ParseDigits(_, _, _)
ParseDigits(bytes, value, max) ==
    IF bytes = <<>> THEN value
    ELSE IF Head(bytes) < Byte.zero \/ Head(bytes) > Byte.nine THEN -1
    ELSE LET v == value * 10 + (Head(bytes) - Byte.zero)
         IN IF v > max THEN -1 ELSE ParseDigits(Tail(bytes), v, max)
parse(bytes, max) ==
    LET digits == IF bytes # <<>> /\ Head(bytes) = Byte.plus THEN Tail(bytes) ELSE bytes
    IN IF digits = <<>> THEN -1 ELSE ParseDigits(digits, 0, max)

\* The pieces joined with a comma (begin_change_tiles, begin_change_color).
RECURSIVE Join(_, _)
Join(pieces, i) ==
    IF i > Len(pieces) THEN <<>>
    ELSE (IF i > 1 THEN <<Byte.comma>> ELSE <<>>) \o pieces[i] \o Join(pieces, i + 1)

\* Tileset::reload(window, filenames): the sprites of a file name the tile set
\* holds are kept, the other files are read from the tile directory.
reload(tileset, filenames) ==
    LET Held(name) == {i \in 1..Len(tileset.tiles) : tileset.tiles[i].filename = name}
        Known(name) == Held(name) # {} \/ name \in DOMAIN AhiFiles
        NTiles(name) == IF Held(name) # {}
                        THEN tileset.tiles[CHOOSE i \in Held(name) :
                                              \A j \in Held(name) : j <= i].ntiles
                        ELSE AhiFiles[name]
    IN IF \A i \in 1..Len(filenames) : Known(filenames[i])
       THEN [ok |-> TRUE,
             tileset |-> [tileset EXCEPT !.tiles =
                            [i \in 1..Len(filenames) |->
                               [filename |-> filenames[i],
                                ntiles |-> NTiles(filenames[i])]]]]
       ELSE Err

\* TileGrid::set_tile_filenames(window, filenames)
set_tile_filenames(tg, filenames) ==
    LET r == reload(tg.tileset, filenames)
        names == {filenames[i] : i \in 1..Len(filenames)}
    IN IF ~r.ok THEN [ok |-> FALSE, tilegrid |-> tg]
       ELSE [ok |-> TRUE,
             tilegrid |-> [tg EXCEPT !.tileset = r.tileset,
                                     !.subgrid.grid =
                                        [i \in 1..Len(tg.subgrid.grid) |->
                                           IF IsSome(tg.subgrid.grid[i])
                                              /\ tg.subgrid.grid[i].filename \notin names
                                           THEN None ELSE tg.subgrid.grid[i]]]]

\* Mutation::resize_grid(new_width, new_height)
resize_grid(s, new_width, new_height) ==
    WriteGrid(s, resize(tilegrid(s), new_width, new_height))

\* Mutation::set_background_color(red, green, blue)
set_background_color(s, red, green, blue) ==
    WriteGrid(s, [tilegrid(s) EXCEPT !.background_color = <<red, green, blue>>])

\* Mutation::set_tile_filenames(window, filenames): the io::Result and the state.
mutation_set_tile_filenames(s, filenames) ==
    LET Result(s1, r) == [ok |-> r.ok, state |-> WriteGrid(s1, r.tilegrid)]
        Unshared(s1) == Result(s1, set_tile_filenames(tilegrid(s1), filenames))
    IN Unshared(make_mut(s))

\* What committing a prompt leaves: success, the state, the file path, the disk.
Performed(ok, s, path, d) == [ok |-> ok, state |-> s, filepath |-> path, disk |-> d]

\* A Mode::LoadFile branch that takes the path and drops the history before
\* it knows whether the file loads.
perform_load_file_partial(s, t, path, d) ==
    LET Result(loaded) ==
            IF loaded.ok THEN Performed(TRUE, load_tilegrid(s, loaded.tilegrid), t, d)
            ELSE Performed(FALSE, [s EXCEPT !.undo_stack = <<>>, !.redo_stack = <<>>],
                           t, d)
    IN Result(load_from_path(d, t))

\* EditorView::mode_perform_internal, Mode::LoadFile
perform_load_file(s, t, path, d) ==
    LET Result(loaded) ==
            IF loaded.ok THEN Performed(TRUE, load_tilegrid(s, loaded.tilegrid), t, d)
            ELSE Performed(FALSE, s, path, d)
    IN Result(load_from_path(d, t))

\* A Mode::SaveAs branch that does not swap the old path back after a failure.
perform_save_as_no_restore(s, t, path, d, write_ok) ==
    LET Result(r) == Performed(r.ok, r.state, t, r.disk)
    IN Result(save_to_file(s, t, d, write_ok))

\* EditorView::mode_perform_internal, Mode::SaveAs
perform_save_as(s, t, path, d, write_ok) ==
    LET Result(r) == IF r.ok THEN Performed(TRUE, r.state, t, r.disk)
                     ELSE Performed(FALSE, r.state, path, r.disk)
    IN Result(save_to_file(s, t, d, write_ok))

\* EditorView::mode_perform_internal, Mode::Resize
perform_resize(s, t, path, d) ==
    LET pieces == Split(t, Byte.lower_x)
        new_width == parse(pieces[1], U32_RANGE - 1)
        new_height == parse(pieces[2], U32_RANGE - 1)
    IN IF Len(pieces) # 2 THEN Performed(FALSE, s, path, d)
       ELSE IF new_width < 0 THEN Performed(FALSE, s, path, d)
       ELSE IF new_height < 0 THEN Performed(FALSE, s, path, d)
       ELSE IF new_width = 0 \/ new_height = 0 \/ new_width > MAX_GRID_WIDTH
               \/ new_height > MAX_GRID_HEIGHT
       THEN Performed(FALSE, s, path, d)
       ELSE Performed(TRUE, resize_grid(mutation(s), new_width, new_height), path, d)

\* EditorView::mode_perform_internal, Mode::ChangeColor
perform_change_color(s, t, path, d) ==
    LET pieces == Split(t, Byte.comma)
        red == parse(pieces[1], 255)
        green == parse(pieces[2], 255)
        blue == parse(pieces[3], 255)
    IN IF Len(pieces) # 3 THEN Performed(FALSE, s, path, d)
       ELSE IF red < 0 THEN Performed(FALSE, s, path, d)
       ELSE IF green < 0 THEN Performed(FALSE, s, path, d)
       ELSE IF blue < 0 THEN Performed(FALSE, s, path, d)
       ELSE Performed(TRUE, set_background_color(mutation(s), red, green, blue),
                      path, d)

\* EditorView::mode_perform_internal, Mode::ChangeTiles: mutation() is taken
\* before set_tile_filenames is called on it.
perform_change_tiles(s, t, path, d) ==
    LET Result(r) == Performed(r.ok, r.state, path, d)
        Pieces(pieces) ==
            IF Len(pieces) < 1 THEN Performed(FALSE, s, path, d)
            ELSE Result(mutation_set_tile_filenames(mutation(s), pieces))
    IN Pieces(Split(t, Byte.comma))

\* EditorView::mode_perform_internal(window, state, mode, text)
mode_perform_internal(s, m, t, path, d, write_ok) ==
    CASE m = "LoadFile" -> perform_load_file(s, t, path, d)
      [] m = "SaveAs" -> perform_save_as(s, t, path, d, write_ok)
      [] m = "Resize" -> perform_resize(s, t, path, d)
      [] m = "ChangeColor" -> perform_change_color(s, t, path, d)
      [] m = "ChangeTiles" -> perform_change_tiles(s, t, path, d)

\* The prompts: EditorView::begin_load_file, begin_save_as, begin_resize_grid,
\* begin_change_color, begin_change_tiles.  Each is opened from Mode::Edit only,
\* after unselect_if_necessary, with the text the text box starts with.
PromptText(m, s, path) ==
    LET tg == tilegrid(s)
    IN CASE m \in {"LoadFile", "SaveAs"} -> path
         [] m = "Resize" -> FormatInt(tg.subgrid.width) \o <<Byte.lower_x>>
                            \o FormatInt(tg.subgrid.height)
         [] m = "ChangeColor" ->
               Join([i \in 1..3 |-> FormatInt(tg.background_color[i])], 1)
         [] m = "ChangeTiles" -> Join(Filenames(tg.tileset), 1)

\* EditorView::on_event, Cmd+O, Cmd+Shift+S, Cmd+R, Cmd+B, Cmd+T.
KeyBegin(m) ==
    /\ ~panicked
    /\ mode = "Edit"
    /\ \E s1 \in {unselect_if_necessary(St)} :
          HandledWith(Event("Begin", <<0, 0>>, m,
                            Outcome(St, TRUE, IF current.selection.some THEN "mutation"
                                              ELSE "none")),
                      s1, drag_from_to, filepath, m, PromptText(m, s1, filepath), disk)

\* EditorView::on_event, Cmd+S: state.save_to_file().unwrap()
KeySave(write_ok) ==
    /\ ~panicked
    /\ \E r \in {save_to_file(St, filepath, disk, write_ok)} :
          HandledWith(Event("Save", <<0, 0>>, "",
                            Outcome(St, r.ok, IF current.selection.some THEN "mutation"
                                              ELSE "none")),
                      IF r.ok THEN r.state ELSE [r.state EXCEPT !.panicked = TRUE],
                      drag_from_to, filepath, mode, text, r.disk)

\* ModalTextBox::on_event, KeyDown(Return): the (mode, text) it returns is
\* given to EditorView::mode_perform, which closes the prompt on success.
PromptReturn(write_ok) ==
    /\ ~panicked
    /\ mode # "Edit"
    /\ \E r \in {mode_perform_internal(St, mode, text, filepath, disk, write_ok)} :
          HandledWith(Event("Return", <<0, 0>>, mode, Outcome(St, r.ok, "none")),
                      r.state, drag_from_to, r.filepath,
                      IF r.ok THEN "Edit" ELSE mode,
                      IF r.ok THEN <<>> ELSE text, r.disk)

\* ModalTextBox::on_event, KeyDown(Escape): clear_mode.
PromptEscape ==
    /\ ~panicked
    /\ mode # "Edit"
    /\ HandledWith(Event("PromptEscape", <<0, 0>>, mode, Outcome(St, TRUE, "none")),
                   St, drag_from_to, filepath, "Edit", <<>>, disk)

\* TextBox::on_event, TextInput(input) with the cursor at the end of the text.
TextInput(input) ==
    /\ ~panicked
    /\ mode # "Edit"
    /\ HandledWith(Event("TextInput", <<0, 0>>, mode, Outcome(St, TRUE, "none")),
                   St, drag_from_to, filepath, mode, text \o input, disk)

\* TextBox::on_event, KeyDown(Backspace) with the cursor at the end of the text.
PromptBackspace ==
    /\ ~panicked
    /\ mode # "Edit"
    /\ text # <<>>
    /\ HandledWith(Event("PromptBackspace", <<0, 0>>, mode, Outcome(St, TRUE, "none")),
                   St, drag_from_to, filepath, mode, SubSeq(text, 1, Len(text) - 1), disk)

(***************************************************************************)
(* Initial states and specifications.                                      *)
(***************************************************************************)
\* A grid of the default size over TilesetA whose cell (col, row) is f[<<col, row>>].
Cells == (0..(GRID_DEFAULT_NUM_COLS - 1)) \X (0..(GRID_DEFAULT_NUM_ROWS - 1))
GridOf(f) ==
    [TileGridNew(TilesetA) EXCEPT !.subgrid.grid =
        [i \in 1..(GRID_DEFAULT_NUM_COLS * GRID_DEFAULT_NUM_ROWS) |->
            f[<<(i - 1) % GRID_DEFAULT_NUM_COLS, (i - 1) \div GRID_DEFAULT_NUM_COLS>>]]]

\* A grid as loaded from a file: two tiles in the first row.
LoadedGrid ==
    GridOf([c \in Cells |-> IF c = <<0, 0>> THEN T1
                            ELSE IF c = <<1, 0>> THEN T2 ELSE None])

\* Pieces of grid files.
Blank == <<Byte.space>>
Newline == <<Byte.newline>>
Header == MAGIC \o FormatInt(15) \o Blank \o FormatInt(15) \o Blank \o FormatInt(15)
NameA == <<Byte.gt>> \o FileA \o Newline
RowAA == <<Byte.upper_a, Byte.upper_a>>

\* The file paths of the model: "o" (the path of a new document, no such file),
\* "o1" (a grid file), "o2" (a grid file with a bad byte in its second row) and
\* "o22" (a grid file with a bad header).
PathOut == <<111>>
PathOne == <<111, 49>>
PathTwo == <<111, 50>>
PathTwoTwo == <<111, 50, 50>>
\* The disk at start: a document that was loaded came from "o1".
InitDisk(tg, unsaved) ==
    (PathOne :> save(IF unsaved THEN LoadedGrid ELSE tg).bytes)
    @@ (PathTwo :> Header \o Newline \o NameA \o Newline \o RowAA \o Newline
                   \o <<Byte.upper_a, 42>> \o Newline)
    @@ (PathTwoTwo :> Header \o <<Byte.lower_x>> \o Newline \o NameA \o Newline
                      \o RowAA \o Newline)

\* The editor's variables after EditorState::new.
InitEditorState(tg, unsaved, t, b, events) ==
    /\ filepath = (IF unsaved THEN PathOut ELSE PathOne)
    /\ mode = "Edit"
    /\ text = <<>>
    /\ disk = InitDisk(tg, unsaved)
    /\ heap = (1 :> tg)
    /\ current = [tilegrid |-> 1, selection |-> NoSelection, unsaved |-> unsaved,
                  as_pushed |-> NotPushed]
    /\ undo_stack = <<>>
    /\ redo_stack = <<>>
    /\ clipboard = NoSelection
    /\ tool = t
    /\ prev_tool = "Pencil"
    /\ brush = b
    /\ persistent_mutation_active = FALSE
    /\ drag_from_to = NoDrag
    /\ panicked = FALSE
    /\ view_size = "Full"
    /\ overflow_checks \in BOOLEAN
    /\ ev = [kind |-> "Start", pt |-> <<0, 0>>, arg |-> "", tool |-> t,
             changed |-> FALSE, handle |-> "none"]
    /\ events_left = events
    /\ gesture = NoGesture
    /\ run = [phase |-> "edit", trail |-> <<tg.subgrid>>, calls |-> 0]
    /\ swapped = NoSwap
    /\ saved = (IF unsaved THEN NoneSaved ELSE [some |-> TRUE, tilegrid |-> tg])

\* No chain of calls.
NoTrial == [steps |-> <<>>, rect |-> Rect(0, 0, 1, 1)]

\* EditorState::new, on a new grid (unsaved) or on a grid loaded from a file.
InitEditor(tg, unsaved, t, b, events) ==
    /\ trial = NoTrial
    /\ InitEditorState(tg, unsaved, t, b, events)

\* Mouse gestures with the pencil and the selection tool, undo and redo.
Init ==
    \/ InitEditor(TileGridNew(TilesetA), TRUE, "Pencil", None, MaxEvents)
    \/ InitEditor(LoadedGrid, FALSE, "Pencil", None, MaxEvents)

Next ==
    \/ \E pt \in MousePoints : CanvasMouseDown(pt)
    \/ \E pt \in MousePoints : CanvasMouseDrag(pt)
    \/ CanvasMouseUp
    \/ KeyUndo
    \/ KeyRedo
    \/ \E t \in {"Pencil", "Select"} : ToolboxPick(t)
    \/ \E b \in {None, T1} : PalettePick(b)

Spec == Init /\ [][Next]_vars

\* Clicks with the paint bucket and the palette tools, undo and redo, on a
\* loaded grid whose first three columns and two rows hold any of None and T1
\* (and T2 in the first cell), with any brush: the tool and the brush are as a
\* pick in the toolbox and in the palette leave them after a load.
ToolGrids ==
    {GridOf([c \in Cells |-> IF c[1] < 3 /\ c[2] < 2
                             THEN (IF c = <<0, 0>> /\ f[c] = T1 /\ f[<<1, 0>>] = T1
                                   THEN T2 ELSE f[c])
                             ELSE None]) :
        f \in [(0..2) \X (0..1) -> {None, T1}]}

InitTools ==
    \E tg \in ToolGrids, t \in {"PaintBucket", "PaletteReplace", "PaletteSwap"},
       b \in {None, T1, T2} :
        InitEditor(tg, FALSE, t, b, MaxToolEvents)

ToolPoints == {<<4, 4>>, <<12, 12>>, <<-4, 4>>}

NextTools ==
    \/ \E pt \in ToolPoints : CanvasMouseDown(pt)
    \/ KeyUndo
    \/ KeyRedo

SpecTools == InitTools /\ [][NextTools]_vars

\* Runs of N palette-swap clicks on the first cell of a loaded grid (each click
\* finds a tile other than the brush and takes one mutation()), then undo()
\* calls, then, after N of them, redo() calls.
InitUndo ==
    \E b \in {None, T2} : InitEditor(LoadedGrid, FALSE, "PaletteSwap", b, 3 * MaxRunEdits)

RunMutation ==
    /\ Len(run.trail) <= MaxRunEdits
    /\ CanvasMouseDown(<<4, 4>>)
    /\ run'.phase = "edit"

RunUndo == KeyUndo /\ run'.phase = "undo"

RunRedo == KeyRedo /\ run'.phase = "redo"

NextUndo ==
    \/ RunMutation
    \/ RunUndo
    \/ RunRedo

SpecUndo == InitUndo /\ [][NextUndo]_vars

\* Prompts, saves and loads, with pencil clicks, select-all, undo and redo, on
\* a new document and on a document loaded from "o1".
InitPrompt ==
    \/ InitEditor(TileGridNew(TilesetA), TRUE, "Pencil", T1, MaxPromptEvents)
    \/ InitEditor(LoadedGrid, FALSE, "Pencil", None, MaxPromptEvents)

\* The bytes typed into each prompt.
Typed(m) ==
    CASE m \in {"LoadFile", "SaveAs"} -> {49, 50, Byte.slash}
      [] m = "Resize" -> {Byte.zero, 49, Byte.lower_x}
      [] m = "ChangeColor" -> {Byte.nine, Byte.comma}
      [] m = "ChangeTiles" -> {Byte.comma, 98}
      [] OTHER -> {}

NextPrompt ==
    \/ \E m \in {"LoadFile", "SaveAs", "Resize", "ChangeColor", "ChangeTiles"} :
          KeyBegin(m)
    \/ \E write_ok \in BOOLEAN : KeySave(write_ok)
    \/ \E write_ok \in BOOLEAN : PromptReturn(write_ok)
    \/ PromptEscape
    \/ \E byte \in Typed(mode) : TextInput(<<byte>>)
    \/ PromptBackspace
    \/ CanvasMouseDown(<<4, 4>>)
    \/ KeySelectAll
    \/ KeyUndo
    \/ KeyRedo

SpecPrompt == InitPrompt /\ [][NextPrompt]_vars

(***************************************************************************)
(* Chains of calls of the grid functions on grids, files and rectangles    *)
(* drawn from bounded sets.  The editor takes no event meanwhile.          *)
(***************************************************************************)
LastStep == trial.steps[Len(trial.steps)]
TrialStep(item) ==
    /\ Len(trial.steps) < MaxTrialSteps
    /\ trial' = [trial EXCEPT !.steps = Append(@, item)]
    /\ UNCHANGED <<stateVars, histVars, promptVars>>

\* TileGrid::save of the grid the chain ends with.
TrialSave ==
    /\ trial.steps # <<>> /\ LastStep.kind = "grid"
    /\ LET written == save(LastStep.tilegrid)
       IN TrialStep([kind |-> IF written.panic THEN "panic" ELSE "file",
                     bytes |-> written.bytes])

\* TileGrid::load of the file the chain ends with.
TrialLoad ==
    /\ trial.steps # <<>> /\ LastStep.kind = "file"
    /\ LET loaded == load(LastStep.bytes)
       IN TrialStep(IF loaded.ok THEN [kind |-> "grid", tilegrid |-> loaded.tilegrid]
                    ELSE [kind |-> "error"])

\* TileGrid::cut_subgrid(rect) on the grid the chain ends with.
TrialCut ==
    /\ trial.steps # <<>> /\ LastStep.kind = "grid"
    /\ LET cut == cut_subgrid(LastStep.tilegrid, trial.rect, overflow_checks)
       IN TrialStep(IF cut.panic THEN [kind |-> "panic"]
                    ELSE [kind |-> "cut", tilegrid |-> cut.tilegrid,
                          subgrid |-> cut.subgrid])

\* TileGrid::paste_subgrid(result, rect.top_left()) after a cut.
TrialPaste ==
    /\ trial.steps # <<>> /\ LastStep.kind = "cut"
    /\ TrialStep([kind |-> "grid",
                  tilegrid |-> paste_subgrid(LastStep.tilegrid, LastStep.subgrid,
                                             <<trial.rect.x, trial.rect.y>>)])

\* Tile sets over the tile files "a" and "b".
TilesetAB == Tileset(<<[filename |-> FileA, ntiles |-> AhiFiles[FileA]],
                       [filename |-> FileB, ntiles |-> AhiFiles[FileB]]>>)
TilesetAA == Tileset(<<[filename |-> FileA, ntiles |-> AhiFiles[FileA]],
                       [filename |-> FileA, ntiles |-> AhiFiles[FileA]]>>)
\* The last two tiles of every file of a tile set.
LastTiles(tileset) ==
    {Tile(tileset.tiles[i].filename, tileset.tiles[i].ntiles - k) :
        i \in 1..Len(tileset.tiles), k \in 1..2}
\* A w x h grid over a tile set whose cells are None except the corners given
\* by f: top left, top right, bottom left, bottom right.
CornerGrid(tileset, color, w, h, f) ==
    [background_color |-> color, tileset |-> tileset,
     subgrid |-> [SubGridNew(w, h) EXCEPT !.grid =
                    [i \in 1..(w * h) |->
                       LET col == (i - 1) % w
                           row == (i - 1) \div w
                       IN IF col = 0 /\ row = 0 THEN f[1]
                          ELSE IF col = w - 1 /\ row = 0 THEN f[2]
                          ELSE IF col = 0 /\ row = h - 1 THEN f[3]
                          ELSE IF col = w - 1 /\ row = h - 1 THEN f[4]
                          ELSE None]]]
\* The grids saved: with tiles of the tile set, and, over the tile set of "a"
\* alone, also with a tile of "b".
CornerTiles(tileset) ==
    IF tileset = TilesetA THEN {None, T2, Tile(FileB, 0)}
    ELSE {None} \cup LastTiles(tileset)
FileGrids ==
    {CornerGrid(TilesetAB, color, size[1], size[2], f) :
        color \in {<<15, 15, 15>>, <<0, 9, 255>>},
        size \in {<<GRID_DEFAULT_NUM_COLS, GRID_DEFAULT_NUM_ROWS>>, <<1, 1>>, <<2, 2>>,
                  <<GRID_DEFAULT_NUM_COLS, 1>>},
        f \in [1..4 -> CornerTiles(TilesetAB)]}
    \cup
    UNION {{CornerGrid(tileset, <<15, 15, 15>>, size[1], size[2], f) :
               size \in {<<GRID_DEFAULT_NUM_COLS, GRID_DEFAULT_NUM_ROWS>>, <<2, 2>>},
               f \in [1..4 -> CornerTiles(tileset)]} :
           tileset \in {Tileset(<<>>), TilesetA, TilesetAA}}

\* Files that were not written by save.
HandFiles ==
    {Header \o Newline \o NameA \o Newline \o RowAA \o Newline,
     \* a trailing empty cell, a trailing empty row, no final newline, no rows
     Header \o Newline \o NameA \o Newline \o RowAA \o Blank \o Blank \o Newline,
     Header \o Newline \o NameA \o Newline \o RowAA \o Newline \o Newline,
     Header \o Newline \o NameA \o Newline \o RowAA,
     Header \o Newline \o NameA \o Newline,
     \* the default size written out, a leading zero
     Header \o Blank \o FormatInt(GRID_DEFAULT_NUM_COLS) \o <<Byte.lower_x>>
            \o FormatInt(GRID_DEFAULT_NUM_ROWS) \o Newline,
     MAGIC \o <<Byte.zero>> \o FormatInt(15) \o Blank \o FormatInt(15) \o Blank
           \o FormatInt(15) \o Newline,
     \* malformed headers
     <<64, 66, 88, Byte.space>> \o FormatInt(15) \o Blank \o FormatInt(15) \o Blank
           \o FormatInt(15) \o Newline,
     MAGIC \o FormatInt(256) \o Blank \o FormatInt(15) \o Blank \o FormatInt(15)
           \o Newline,
     Header,
     Header \o <<Byte.lower_x>> \o Newline,
     \* a byte outside the alphabet, undeclared tiles, too many columns, half a
     \* cell, a tile file that does not exist
     Header \o Newline \o NameA \o Newline \o <<Byte.upper_a, 42>> \o Newline,
     Header \o Newline \o NameA \o Newline \o <<66, Byte.upper_a>> \o Newline,
     Header \o Newline \o NameA \o Newline \o <<Byte.upper_a, 67>> \o Newline,
     Header \o Blank \o FormatInt(1) \o <<Byte.lower_x>> \o FormatInt(1) \o Newline
            \o NameA \o Newline \o RowAA \o RowAA \o Newline,
     Header \o Newline \o NameA \o Newline \o <<Byte.upper_a>>,
     Header \o Newline \o <<Byte.gt, 99>> \o Newline}

\* save and load chained, from a grid or from a file.
InitFile ==
    /\ InitEditorState(TileGridNew(TilesetA), TRUE, "Pencil", None, 0)
    /\ \/ \E tg \in FileGrids :
            trial = [NoTrial EXCEPT !.steps = <<[kind |-> "grid", tilegrid |-> tg]>>]
       \/ \E bytes \in HandFiles :
            trial = [NoTrial EXCEPT !.steps = <<[kind |-> "file", bytes |-> bytes]>>]

NextFile ==
    \/ TrialSave
    \/ TrialLoad

SpecFile == InitFile /\ [][NextFile]_vars

\* Rectangles inside the grid, across each edge of it and beyond each edge.
ClipRects ==
    {Rect(x, y, w, h) :
        x \in {-2, -1, 0, 1, GRID_DEFAULT_NUM_COLS, GRID_DEFAULT_NUM_COLS + 1},
        y \in {-2, 0, GRID_DEFAULT_NUM_ROWS + 1},
        w \in {1, 2, GRID_DEFAULT_NUM_COLS + 2},
        h \in {1, GRID_DEFAULT_NUM_ROWS + 1}}

\* cut_subgrid and paste_subgrid chained.
InitClip ==
    /\ InitEditorState(TileGridNew(TilesetA), TRUE, "Pencil", None, 0)
    /\ \E tg \in ToolGrids, rect \in ClipRects :
          trial = [steps |-> <<[kind |-> "grid", tilegrid |-> tg]>>, rect |-> rect]

NextClip ==
    \/ TrialCut
    \/ TrialPaste

SpecClip == InitClip /\ [][NextClip]_vars

\* TileGrid::copy_subgrid(rect) on the grid the chain ends with.
TrialCopy ==
    /\ trial.steps # <<>> /\ LastStep.kind = "grid"
    /\ LET copy == copy_subgrid(LastStep.tilegrid, trial.rect, overflow_checks)
       IN TrialStep(IF copy.panic THEN [kind |-> "panic"]
                    ELSE [kind |-> "copy", tilegrid |-> copy.tilegrid,
                          subgrid |-> copy.subgrid])

\* copy_subgrid or cut_subgrid of a rectangle, on a grid.
NextCopy ==
    \/ TrialCopy
    \/ TrialCut

SpecCopy == InitClip /\ [][NextCopy]_vars

\* The sub-grids pasted: of no cell, smaller than the grid, wider and taller
\* than it; the cells of the first two columns and rows are None or T2, the
\* others T2.
PasteSizes == {<<0, 0>>, <<1, 1>>, <<2, 2>>, <<1, GRID_DEFAULT_NUM_ROWS + 1>>,
               <<GRID_DEFAULT_NUM_COLS + 1, 1>>,
               <<GRID_DEFAULT_NUM_COLS + 1, GRID_DEFAULT_NUM_ROWS + 1>>}
PasteSubGrids ==
    UNION {{[width |-> size[1], height |-> size[2],
             grid |-> [i \in 1..(size[1] * size[2]) |->
                         LET col == (i - 1) % size[1]
                             row == (i - 1) \div size[1]
                         IN IF col < 2 /\ row < 2 THEN f[<<col, row>>] ELSE T2]] :
               f \in [(0..1) \X (0..1) -> {None, T2}]} :
           size \in PasteSizes}
\* Where they are pasted: inside the grid, at negative coordinates, beyond it.
PastePoints ==
    {-(GRID_DEFAULT_NUM_COLS + 2), -1, 0, 1, GRID_DEFAULT_NUM_COLS - 1,
     GRID_DEFAULT_NUM_COLS, GRID_DEFAULT_NUM_COLS + 1}
    \X {-(GRID_DEFAULT_NUM_ROWS + 2), -1, 0, 1, GRID_DEFAULT_NUM_ROWS,
        GRID_DEFAULT_NUM_ROWS + 1}

\* TileGrid::paste_subgrid(subgrid, topleft) on a grid, with the cells indexed.
TrialPasteAt ==
    /\ trial.steps # <<>> /\ LastStep.kind = "grid"
    /\ \E subgrid \in PasteSubGrids, topleft \in PastePoints :
          TrialStep([kind |-> "pasted", subgrid |-> subgrid, topleft |-> topleft,
                     tilegrid |-> paste_subgrid(LastStep.tilegrid, subgrid, topleft),
                     reads |-> PasteReads(LastStep.tilegrid, subgrid, topleft),
                     writes |-> PasteWrites(LastStep.tilegrid, subgrid, topleft)])

InitPaste ==
    /\ InitEditorState(TileGridNew(TilesetA), TRUE, "Pencil", None, 0)
    /\ \E tg \in ToolGrids :
          trial = [NoTrial EXCEPT !.steps = <<[kind |-> "grid", tilegrid |-> tg]>>]

NextPaste == TrialPasteAt

SpecPaste == InitPaste /\ [][NextPaste]_vars

\* The sizes a grid is resized to: smaller and larger than the default size,
\* the default size, no cell.
ResizeSizes ==
    {<<0, 0>>, <<1, 1>>, <<2, 1>>, <<2, GRID_DEFAULT_NUM_ROWS + 1>>,
     <<GRID_DEFAULT_NUM_COLS, GRID_DEFAULT_NUM_ROWS>>,
     <<GRID_DEFAULT_NUM_COLS + 1, GRID_DEFAULT_NUM_ROWS + 1>>}

\* TileGrid::resize(new_width, new_height) on the grid the chain ends with.
TrialResize ==
    /\ trial.steps # <<>> /\ LastStep.kind \in {"grid", "resized"}
    /\ \E size \in ResizeSizes :
          TrialStep([kind |-> "resized",
                     tilegrid |-> resize(LastStep.tilegrid, size[1], size[2])])

NextResize == TrialResize

SpecResize == InitPaste /\ [][NextResize]_vars

(***************************************************************************)
(* Malformed grid files: a file written by save with one fault put in.     *)
(***************************************************************************)
IsDigit(byte) == Byte.zero <= byte /\ byte <= Byte.nine
Replace(bytes, i, piece) ==
    SubSeq(bytes, 1, i - 1) \o piece \o SubSeq(bytes, i + Len(piece), Len(bytes))
Insert(bytes, i, piece) ==
    SubSeq(bytes, 1, i - 1) \o piece \o SubSeq(bytes, i, Len(bytes))

\* The header line ends at the first newline; after b"@BG " its bytes that
\* are no digits are the bytes that follow the numbers, in order: red, green,
\* blue and, when the size is written, width and height.
HeaderEnd(bytes) ==
    CHOOSE i \in 1..Len(bytes) :
        bytes[i] = Byte.newline /\ \A j \in 1..(i - 1) : bytes[j] # Byte.newline
Separators(bytes) ==
    {i \in (Len(MAGIC) + 1)..HeaderEnd(bytes) : ~IsDigit(bytes[i])}
SeparatorRank(bytes, i) == Cardinality({j \in Separators(bytes) : j <= i})
\* The bytes load takes after the k-th number of the header.
ValidSeparators(k) ==
    CASE k \in {1, 2} -> {Byte.space}
      [] k = 3 -> {Byte.space, Byte.newline}
      [] k = 4 -> {Byte.lower_x}
      [] OTHER -> {Byte.newline}
\* Where the number that ends at separator i starts.
NumberStart(bytes, i) ==
    1 + (CHOOSE j \in 0..(i - 1) :
            /\ j = Len(MAGIC) \/ j \in Separators(bytes)
            /\ \A k \in Separators(bytes) : k < i => k <= j)

\* The rows start after the first empty line; a file with no empty line has
\* no rows.
BlankLines(bytes) ==
    {i \in 2..Len(bytes) : bytes[i] = Byte.newline /\ bytes[i - 1] = Byte.newline}
RowsStart(bytes) ==
    IF BlankLines(bytes) = {} THEN Len(bytes) + 1
    ELSE 1 + (CHOOSE i \in BlankLines(bytes) : \A j \in BlankLines(bytes) : i <= j)
LineStart(bytes, i) ==
    1 + (CHOOSE j \in 0..(i - 1) :
            /\ j = 0 \/ bytes[j] = Byte.newline
            /\ \A k \in (j + 1)..(i - 1) : bytes[k] # Byte.newline)
CellBytes(bytes) ==
    {i \in RowsStart(bytes)..Len(bytes) : bytes[i] # Byte.newline}
IsFirstOfCell(bytes, i) == (i - LineStart(bytes, i)) % 2 = 0
Partner(bytes, i) == IF IsFirstOfCell(bytes, i) THEN i + 1 ELSE i - 1
RowEnds(bytes) ==
    {i \in RowsStart(bytes)..Len(bytes) : bytes[i] = Byte.newline}

\* Bytes outside the alphabet A-Z a-z 0-9 + /: the neighbours of its ranges,
\* and the space (which is outside it, and makes a cell only next to a byte
\* that is no space).
OutsideBytes == {42, 44, 46, 58, 64, 91, 96, 123}
\* (file index, tile index) pairs a tile set does not hold.
Undeclared(tileset) ==
    {pair \in (0..Len(tileset.tiles)) \X {0, 1, 2, 63} :
        ~IsSome(get(tileset, pair[1], pair[2]))}
RECURSIVE BlankCells(_)
BlankCells(n) == IF n <= 0 THEN <<>> ELSE <<Byte.space, Byte.space>> \o BlankCells(n - 1)

\* The files that differ from `bytes`, the file save wrote for tg, by one fault.
Faults(bytes, tg) ==
    {[fault |-> "prefix", bytes |-> Replace(bytes, i, <<88>>)] : i \in 1..Len(MAGIC)}
    \cup
    UNION {{[fault |-> "separator", bytes |-> Replace(bytes, i, <<byte>>)] :
               byte \in {Byte.space, Byte.newline, Byte.lower_x, Byte.comma}
                        \ ValidSeparators(SeparatorRank(bytes, i))} :
           i \in Separators(bytes)}
    \cup
    {[fault |-> "number",
      bytes |-> SubSeq(bytes, 1, NumberStart(bytes, i) - 1) \o FormatInt(256)
                \o SubSeq(bytes, i, Len(bytes))] : i \in Separators(bytes)}
    \cup
    UNION {{[fault |-> "alphabet", bytes |-> Replace(bytes, i, <<byte>>)] :
               byte \in OutsideBytes
                        \cup (IF bytes[i] # Byte.space
                                 /\ bytes[Partner(bytes, i)] # Byte.space
                              THEN {Byte.space} ELSE {})} :
           i \in CellBytes(bytes)}
    \cup
    UNION {{[fault |-> "undeclared",
             bytes |-> Replace(bytes, i, <<index_to_base64(pair[1]),
                                           index_to_base64(pair[2])>>)] :
               pair \in Undeclared(tg.tileset)} :
           i \in {j \in CellBytes(bytes) : IsFirstOfCell(bytes, j)}}
    \cup
    UNION {{[fault |-> "long",
             bytes |-> Insert(bytes, i,
                              BlankCells(tg.subgrid.width
                                         - (i - LineStart(bytes, i)) \div 2)
                              \o cell)] :
               cell \in {<<Byte.space, Byte.space>>}
                        \cup (IF IsSome(get(tg.tileset, 0, 0))
                              THEN {<<index_to_base64(0), index_to_base64(0)>>}
                              ELSE {})} :
           i \in RowEnds(bytes)}

\* One fault put into the file that save wrote for the grid before it.
TrialFault ==
    /\ Len(trial.steps) >= 2 /\ LastStep.kind = "file"
    /\ "fault" \notin DOMAIN LastStep
    /\ trial.steps[Len(trial.steps) - 1].kind = "grid"
    /\ \E f \in Faults(LastStep.bytes, trial.steps[Len(trial.steps) - 1].tilegrid) :
          TrialStep([kind |-> "file", bytes |-> f.bytes, fault |-> f.fault])

\* The grids saved: 1 x 1, 2 x 2 and the default size, over the tile sets of
\* "a" and of "a" and "b", with tiles in their corners.
FaultGrids ==
    {CornerGrid(tileset, <<0, 9, 255>>, size[1], size[2], f) :
        tileset \in {TilesetA, TilesetAB},
        size \in {<<GRID_DEFAULT_NUM_COLS, GRID_DEFAULT_NUM_ROWS>>, <<1, 1>>, <<2, 2>>},
        f \in [1..4 -> {None, T1, T2}]}
    \cup
    {CornerGrid(TilesetAB, <<15, 15, 15>>, 2, 2, f) :
        f \in [1..4 -> {None, Tile(FileB, 63)}]}

\* save, a fault, load.
InitFaults ==
    /\ InitEditorState(TileGridNew(TilesetA), TRUE, "Pencil", None, 0)
    /\ \E tg \in FaultGrids :
          trial = [NoTrial EXCEPT !.steps = <<[kind |-> "grid", tilegrid |-> tg]>>]

NextFaults ==
    \/ TrialSave
    \/ TrialFault
    \/ TrialLoad

SpecFaults == InitFaults /\ [][NextFaults]_vars

(***************************************************************************)
(* Properties.                                                             *)
(***************************************************************************)
\* The number N of mutations of the run.
RunLength == Len(run.trail) - 1

\* C1 as stated: after N mutations, N undo() calls give back the initial grid,
\* and N redo() calls after them give back the final grid, for every N.
C1_UndoRedoRoundTripAnyLength ==
    /\ (run.phase = "undo" /\ run.calls = RunLength) => Grid(St) = run.trail[1]
    /\ (run.phase = "redo" /\ run.calls = RunLength)
          => Grid(St) = run.trail[RunLength + 1]

\* C1 amended: after N <= MAX_UNDOS mutations, N undo() calls give back the
\* initial grid, and N redo() calls after them give back the final grid.
C1_UndoRedoRoundTrip ==
    RunLength <= MAX_UNDOS =>
       /\ (run.phase = "undo" /\ run.calls = RunLength) => Grid(St) = run.trail[1]
       /\ (run.phase = "redo" /\ run.calls = RunLength)
             => Grid(St) = run.trail[RunLength + 1]

\* C1 witness: MAX_UNDOS mutations, the first and the last of which changed the
\* grid, have been undone and redone.
C1_Witness ==
    /\ run.phase = "redo" /\ RunLength = MAX_UNDOS /\ run.calls = RunLength
    /\ run.trail[1] # run.trail[2]
    /\ run.trail[RunLength] # run.trail[RunLength + 1]

\* The value of a stacked snapshot: its grid and its selection.
SnapshotValue(snapshot) ==
    [tilegrid |-> heap[snapshot.tilegrid], selection |-> snapshot.selection]

\* C2: an event whose handler changes the current grid through a handle
\* obtained from mutation() or persistent_mutation() leaves the redo stack empty.
C2_RedoEmptyAfterEdit ==
    [][(ev'.handle # "none" /\ heap'[current'.tilegrid] # heap[current.tilegrid])
          => redo_stack' = <<>>]_vars

\* C3: while a pencil gesture (mouse-down, then only mouse-drags) that has
\* painted at least one cell is in progress, the undo stack holds exactly one
\* entry more than before the gesture and that entry has the grid from before
\* the gesture; one undo() after it gives back the grid from before the gesture.
C3_GestureIsOneUndoEntry ==
    /\ (gesture.phase = "drawing" /\ gesture.painted) =>
          /\ Len(undo_stack) = gesture.undo_len + 1
          /\ heap[undo_stack[Len(undo_stack)].tilegrid].subgrid = gesture.before
    /\ gesture.phase = "undone" => Grid(St) = gesture.before

\* C3 witness: a gesture that changed at least two cells has been undone.
C3_Witness ==
    /\ gesture.phase = "undone"
    /\ redo_stack # <<>>
    /\ LET painted == heap[redo_stack[Len(redo_stack)].tilegrid].subgrid
       IN Cardinality({i \in 1..Len(painted.grid) :
                          painted.grid[i] # gesture.before.grid[i]}) >= 2

\* C4: every snapshot on the undo stack and on the redo stack has the grid and
\* the selection it had when it was pushed.
C4_StackedSnapshotsKeepTheirValue ==
    /\ \A i \in 1..Len(undo_stack) :
          SnapshotValue(undo_stack[i]) = undo_stack[i].as_pushed
    /\ \A i \in 1..Len(redo_stack) :
          SnapshotValue(redo_stack[i]) = redo_stack[i].as_pushed

\* C4 witness: the current grid was edited through a handle while snapshots
\* with another grid are on both stacks.
C4_Witness ==
    /\ ev.handle = "persistent"
    /\ undo_stack # <<>> /\ redo_stack # <<>>
    /\ heap[undo_stack[Len(undo_stack)].tilegrid] # tilegrid(St)
    /\ heap[redo_stack[Len(redo_stack)].tilegrid] # tilegrid(St)

\* The number of cells in which two sub-grids of one size differ.
CellsChanged(a, b) == Cardinality({i \in 1..Len(a.grid) : a.grid[i] # b.grid[i]})
\* The grid of the snapshot on top of the undo stack.
UndoTopGrid == heap[undo_stack[Len(undo_stack)].tilegrid].subgrid

\* C8: two palette-swap clicks in a row on one cell, the first on a tile other
\* than the brush, leave every cell of the grid as it was before the first.
C8_PaletteSwapTwiceRestores == swapped.phase = 2 => Grid(St) = swapped.before

\* C8 witness: the second click came after a first click that exchanged two
\* tiles which both occur in the grid.
C8_Witness ==
    /\ swapped.phase = 2
    /\ ev.changed
    /\ undo_stack # <<>>
    /\ \E i, j \in 1..Len(swapped.before.grid) :
          /\ swapped.before.grid[i] # swapped.before.grid[j]
          /\ UndoTopGrid.grid[i] = swapped.before.grid[j]
          /\ UndoTopGrid.grid[j] = swapped.before.grid[i]

\* The cells 4-connected to the seed through cells holding from_tile: the
\* least set that holds the seed and, with a cell, its neighbours that hold
\* from_tile.  `reached` is the set so far and `frontier` its newest cells.
Neighbours4(c) ==
    {<<c[1] - 1, c[2]>>, <<c[1] + 1, c[2]>>, <<c[1], c[2] - 1>>, <<c[1], c[2] + 1>>}
RECURSIVE Region(_, _, _, _)
Region(sg, from_tile, reached, frontier) ==
    LET new == {c \in UNION {Neighbours4(d) : d \in frontier} :
                   /\ InRange(sg, c[1], c[2])
                   /\ c \notin reached
                   /\ At(sg, c[1], c[2]) = from_tile}
    IN IF new = {} THEN reached
       ELSE UNION {Region(sg, from_tile, grown[1], grown[2]) :
                      grown \in {<<reached \cup new, new>>}}
\* The grid sg with exactly the region of seed repainted with to_tile.
ExpectedFill(sg, seed, to_tile) ==
    CHOOSE filled \in
        {[sg EXCEPT !.grid = [i \in 1..Len(sg.grid) |->
            IF <<(i - 1) % sg.width, (i - 1) \div sg.width>> \in region
            THEN to_tile ELSE sg.grid[i]]] :
         region \in {Region(sg, At(sg, seed[1], seed[2]), {seed}, {seed})}} : TRUE

\* C9: after a paint-bucket click on a cell whose tile differed from the brush,
\* the grid holds the brush in exactly the cells 4-connected to the clicked cell
\* through cells that held its tile, and every other cell is as before the
\* click (the grid before the click is the one of the snapshot the click pushed).
C9_FloodFillPaintsExactlyTheRegion ==
    (ev.kind = "MouseDown" /\ ev.tool = "PaintBucket" /\ ev.changed) =>
       /\ undo_stack # <<>>
       /\ Grid(St) = ExpectedFill(UndoTopGrid,
                                  mouse_to_row_col(ev.pt, tilegrid(St)).pos, brush)

\* C9 witness: a fill has repainted a region of at least three cells, going
\* down and sideways, while another cell holding the seed's tile, not connected
\* to it, kept its tile.
C9_Witness ==
    /\ ev.kind = "MouseDown" /\ ev.tool = "PaintBucket" /\ ev.changed
    /\ undo_stack # <<>>
    /\ LET seed == mouse_to_row_col(ev.pt, tilegrid(St)).pos
           from_tile == At(UndoTopGrid, seed[1], seed[2])
       IN /\ CellsChanged(UndoTopGrid, Grid(St)) >= 3
          /\ \E i \in 1..Len(UndoTopGrid.grid) :
                UndoTopGrid.grid[i] = from_tile /\ Grid(St).grid[i] = from_tile
          /\ \E c \in {seed} : At(Grid(St), c[1], 1 - c[2]) = brush

\* C10: a paint-bucket click on a cell whose tile equals the brush changes no
\* grid, pushes nothing on the undo stack, leaves the redo stack and the
\* current snapshot (with its unsaved flag) as they are and reports no change.
C10_FloodFillFromBrushTileIsNoOp ==
    [][(/\ ev'.kind = "MouseDown" /\ ev'.tool = "PaintBucket"
        /\ mouse_to_row_col(ev'.pt, tilegrid(St)).some
        /\ LET p == mouse_to_row_col(ev'.pt, tilegrid(St)).pos
           IN At(Grid(St), p[1], p[2]) = brush)
          => /\ UNCHANGED <<heap, current, undo_stack, redo_stack>>
             /\ ~ev'.changed]_vars

\* C10 witness: such a click was made while the redo stack is not empty and
\* the current snapshot is saved.
C10_Witness ==
    /\ ev.kind = "MouseDown" /\ ev.tool = "PaintBucket" /\ ~ev.changed
    /\ mouse_to_row_col(ev.pt, tilegrid(St)).some
    /\ LET p == mouse_to_row_col(ev.pt, tilegrid(St)).pos
       IN At(Grid(St), p[1], p[2]) = brush
    /\ redo_stack # <<>>
    /\ ~current.unsaved

\* A grid that save can encode: every tile is a tile of a file of the grid's
\* tile set, and its file index and tile index are below the 64 of the alphabet.
ValidGrid(tg) ==
    \A i \in 1..Len(tg.subgrid.grid) :
       LET tile == tg.subgrid.grid[i]
           file_index == FilenameIndex(Filenames(tg.tileset), tile.filename)
       IN IsSome(tile) =>
             /\ file_index >= 0 /\ file_index < 64
             /\ tile.index < tg.tileset.tiles[file_index + 1].ntiles
             /\ tile.index < 64
\* Same background colour, dimensions, file names and tile (or none) per cell.
SameGrid(a, b) ==
    /\ a.background_color = b.background_color
    /\ a.subgrid.width = b.subgrid.width /\ a.subgrid.height = b.subgrid.height
    /\ Filenames(a.tileset) = Filenames(b.tileset)
    /\ a.subgrid.grid = b.subgrid.grid

\* C5: save of a valid grid writes a file, and load of that file succeeds with
\* a grid of the same background colour, dimensions, file names and cells.
C5_LoadOfSaveIsTheGrid ==
    \A i \in 1..Len(trial.steps) :
       (trial.steps[i].kind = "grid" /\ ValidGrid(trial.steps[i].tilegrid)) =>
          /\ Len(trial.steps) > i => trial.steps[i + 1].kind = "file"
          /\ Len(trial.steps) > i + 1 =>
                /\ trial.steps[i + 2].kind = "grid"
                /\ SameGrid(trial.steps[i + 2].tilegrid, trial.steps[i].tilegrid)

\* C5 witness: a grid of another size than the default, with an empty cell
\* before a tile and with the tile 63 of the second file, was saved and loaded.
C5_Witness ==
    /\ Len(trial.steps) >= 3
    /\ trial.steps[1].kind = "grid" /\ trial.steps[3].kind = "grid"
    /\ LET sg == trial.steps[1].tilegrid.subgrid
       IN /\ sg.width = 2 /\ sg.height = 2
          /\ At(sg, 0, 0) = None /\ At(sg, 1, 0) = Tile(FileB, 63)
          /\ At(sg, 0, 1) = Tile(FileA, 1) /\ At(sg, 1, 1) = None

\* C6 as stated: a file that loads is written back byte for byte by save.
C6_SaveOfLoadIsTheFile ==
    \A i \in 1..Len(trial.steps) :
       (trial.steps[i].kind = "file" /\ Len(trial.steps) > i + 1
        /\ trial.steps[i + 1].kind = "grid") => trial.steps[i + 2] = trial.steps[i]

\* C6 amended: a file written by save, once loaded, is written back byte for
\* byte by save.
C6_SaveOfLoadOfSavedFileIsTheFile ==
    \A i \in 2..Len(trial.steps) :
       (trial.steps[i].kind = "file" /\ trial.steps[i - 1].kind = "grid") =>
          /\ Len(trial.steps) > i => trial.steps[i + 1].kind = "grid"
          /\ Len(trial.steps) > i + 1 => trial.steps[i + 2] = trial.steps[i]

\* C6 witness: a saved file with tile rows was loaded and saved again.
C6_Witness ==
    /\ Len(trial.steps) >= 4
    /\ trial.steps[1].kind = "grid" /\ trial.steps[2].kind = "file"
    /\ trial.steps[4].kind = "file"
    /\ LET sg == trial.steps[1].tilegrid.subgrid
       IN /\ sg.height > 1
          /\ At(sg, 0, 0) = None /\ IsSome(At(sg, sg.width - 1, 0))
          /\ At(sg, 0, sg.height - 1) = None /\ At(sg, sg.width - 1, sg.height - 1) = None

\* C7: for every rectangle, cut_subgrid(R) returns and paste_subgrid(result,
\* R.top_left) after it leaves the grid as it was before the cut.
C7_PasteOfCutRestoresTheGrid ==
    \A i \in 1..Len(trial.steps) :
       (trial.steps[i].kind = "grid" /\ Len(trial.steps) > i) =>
          /\ trial.steps[i + 1].kind = "cut"
          /\ Len(trial.steps) > i + 1 => trial.steps[i + 2] = trial.steps[i]

\* The event handled last was a save (Cmd+S, or the commit of a save-as prompt).
SaveEvent == ev.kind = "Save" \/ (ev.kind = "Return" /\ ev.arg = "SaveAs")
\* The flags of the snapshots a stack held before are the flags they have now.
FlagsKept(before, after) ==
    \A i \in 1..Min(Len(before), Len(after)) : after[i].unsaved = before[i].unsaved

\* C11: after a successful save_to_file the current snapshot is marked saved and
\* every snapshot of the undo stack and of the redo stack is marked unsaved;
\* after a failed save_to_file the unsaved flag of the current snapshot and of
\* every stacked snapshot is what it was before the call.
C11_SaveSetsTheUnsavedFlags ==
    [][(SaveEvent' /\ ev'.changed
          => /\ ~current'.unsaved
             /\ \A i \in 1..Len(undo_stack') : undo_stack'[i].unsaved
             /\ \A i \in 1..Len(redo_stack') : redo_stack'[i].unsaved)
       /\ (SaveEvent' /\ ~ev'.changed
          => /\ current'.unsaved = current.unsaved
             /\ FlagsKept(undo_stack, undo_stack')
             /\ FlagsKept(redo_stack, redo_stack'))]_vars

\* C12: after more than MAX_UNDOS mutations with no undo in between, the undo
\* stack holds MAX_UNDOS snapshots, the grids from before the MAX_UNDOS most
\* recent mutations in order (oldest first); of the undo() calls that follow,
\* the first MAX_UNDOS succeed and the next one does not.
C12_UndoStackHoldsTheLastHundred ==
    /\ (run.phase = "edit" /\ RunLength > MAX_UNDOS) =>
          /\ Len(undo_stack) = MAX_UNDOS
          /\ \A i \in 1..MAX_UNDOS :
                heap[undo_stack[i].tilegrid].subgrid
                   = run.trail[RunLength - MAX_UNDOS + i]
    /\ (run.phase = "undo" /\ RunLength > MAX_UNDOS) =>
          (ev.changed <=> run.calls <= MAX_UNDOS)

\* C12 witness: after MAX_UNDOS + 1 mutations, the undo() call after MAX_UNDOS
\* successful ones has returned false.
C12_Witness ==
    /\ run.phase = "undo" /\ RunLength = MAX_UNDOS + 1
    /\ run.calls = MAX_UNDOS + 1 /\ ev.kind = "Undo" /\ ~ev.changed
    /\ undo_stack = <<>> /\ Len(redo_stack) = MAX_UNDOS

\* The step is the commit (Return) of the prompt of mode m, and it was rejected.
Rejected(m) == ev'.kind = "Return" /\ ev'.arg = m /\ ~ev'.changed

\* C13: a load that fails (no such file, or a data-format error anywhere in
\* the file) leaves the grid and its tile set, the file path, the undo and
\* redo stacks, the brush and the unsaved flag as they were, and the load
\* prompt stays open with its text.
C13_FailedLoadChangesNothing ==
    [][Rejected("LoadFile") =>
          /\ heap' = heap /\ current' = current
          /\ undo_stack' = undo_stack /\ redo_stack' = redo_stack
          /\ brush' = brush /\ filepath' = filepath
          /\ mode' = "LoadFile" /\ text' = text]_vars

\* C13 witness: with an undo stack, the load of "o2" (a bad byte in its second
\* row) has failed on a document whose path is "o".
C13_Witness ==
    /\ ev.kind = "Return" /\ ev.arg = "LoadFile" /\ ~ev.changed
    /\ text = PathTwo /\ filepath = PathOut /\ mode = "LoadFile"
    /\ undo_stack # <<>> /\ current.unsaved /\ IsSome(brush)

\* C14: after a save-as that fails the file path is the path from before the
\* prompt was committed, and the prompt stays open.
C14_FailedSaveAsKeepsThePath ==
    [][Rejected("SaveAs") => filepath' = filepath /\ mode' = "SaveAs" /\ text' = text]_vars

\* C14 witness: a save-as to another path than the document's has failed.
C14_Witness ==
    /\ ev.kind = "Return" /\ ev.arg = "SaveAs" /\ ~ev.changed
    /\ mode = "SaveAs" /\ text # filepath /\ filepath \in {PathOut, PathOne}

\* C15: a rejected commit of the resize, colour or tile file-name prompt leaves
\* the prompt open and changes no editor state: the grid and its tile set, the
\* selection, the undo stack, the redo stack and the unsaved flag are as before.
C15_RejectedCommitChangesNothing ==
    [][(\E m \in {"Resize", "ChangeColor", "ChangeTiles"} : Rejected(m)) =>
          /\ mode' = mode /\ text' = text
          /\ tilegrid(St') = tilegrid(St)
          /\ current'.selection = current.selection
          /\ current'.unsaved = current.unsaved
          /\ undo_stack' = undo_stack /\ redo_stack' = redo_stack]_vars

\* The step of the chain that follows a file with a fault, if any.
AfterFault(i) == trial.steps[i].kind = "file" /\ "fault" \in DOMAIN trial.steps[i]

\* C16: load returns an error, and no grid, for a file whose header has a
\* wrong "@BG " prefix, a wrong byte after a number or a number above 255, a
\* file with a cell byte outside the alphabet A-Z a-z 0-9 + /, a file with a
\* cell that names a (file index, tile index) pair the declared tile set does
\* not hold, and a file with a row line of more cells than the declared width.
C16_MalformedFilesAreRejected ==
    \A i \in 1..(Len(trial.steps) - 1) :
        AfterFault(i) => trial.steps[i + 1].kind = "error"

\* C16 witness: a file whose last row line holds one cell more than the
\* declared width of 2, all its cells being declared tiles, was not loaded.
C16_Witness ==
    /\ Len(trial.steps) = 4
    /\ trial.steps[1].kind = "grid" /\ trial.steps[1].tilegrid.subgrid.width = 2
    /\ At(trial.steps[1].tilegrid.subgrid, 1, 1) = T2
    /\ AfterFault(3) /\ trial.steps[3].fault = "long"
    /\ trial.steps[3].bytes[Len(trial.steps[3].bytes) - 1] = Byte.upper_a
    /\ trial.steps[4].kind = "error"

\* The rectangle of the chain clipped to the grid the chain starts with.
GridBefore == trial.steps[1].tilegrid.subgrid
ClipLeft == Max(0, trial.rect.x)
ClipTop == Max(0, trial.rect.y)
ClipRight == Min(GridBefore.width, RectRight(trial.rect))
ClipBottom == Min(GridBefore.height, RectBottom(trial.rect))
Overlaps == ClipLeft < ClipRight /\ ClipTop < ClipBottom
InClip(col, row) ==
    ClipLeft <= col /\ col < ClipRight /\ ClipTop <= row /\ row < ClipBottom
Called == Len(trial.steps) = 2 /\ trial.steps[1].kind = "grid"

\* C17: for a rectangle that overlaps the grid, copy_subgrid and cut_subgrid
\* return a SubGrid of the size of the rectangle clipped to the grid whose cell
\* (i, j) is the grid's cell (clipped.left + i, clipped.top + j) from before
\* the call; copy leaves the grid as it was, cut empties the clipped cells and
\* no other.
C17_CopyAndCutClipToTheGrid ==
    (Called /\ Overlaps) =>
       /\ LastStep.kind \in {"copy", "cut"}
       /\ LastStep.subgrid.width = ClipRight - ClipLeft
       /\ LastStep.subgrid.height = ClipBottom - ClipTop
       /\ Len(LastStep.subgrid.grid) = (ClipRight - ClipLeft) * (ClipBottom - ClipTop)
       /\ \A i \in 0..(ClipRight - ClipLeft - 1), j \in 0..(ClipBottom - ClipTop - 1) :
             At(LastStep.subgrid, i, j) = At(GridBefore, ClipLeft + i, ClipTop + j)
       /\ LastStep.kind = "copy" => LastStep.tilegrid = trial.steps[1].tilegrid
       /\ LastStep.kind = "cut" =>
             /\ LastStep.tilegrid.subgrid.width = GridBefore.width
             /\ LastStep.tilegrid.subgrid.height = GridBefore.height
             /\ LastStep.tilegrid.tileset = trial.steps[1].tilegrid.tileset
             /\ \A col \in 0..(GridBefore.width - 1), row \in 0..(GridBefore.height - 1) :
                   At(LastStep.tilegrid.subgrid, col, row)
                      = IF InClip(col, row) THEN None ELSE At(GridBefore, col, row)

\* C17 witness: a cut of a rectangle that hangs over the left and the top edge
\* of the grid has returned a tile and left another tile in the grid.
C17_Witness ==
    /\ Called /\ Overlaps /\ LastStep.kind = "cut"
    /\ trial.rect.x < 0 /\ trial.rect.y < 0
    /\ \E i \in 1..Len(LastStep.subgrid.grid) : IsSome(LastStep.subgrid.grid[i])
    /\ \E i \in 1..Len(LastStep.tilegrid.subgrid.grid) :
          IsSome(LastStep.tilegrid.subgrid.grid[i])

\* C18: for a rectangle that lies fully outside the grid (left of it, above
\* it, right of it or below it), copy_subgrid and cut_subgrid do not fail,
\* return a SubGrid of no cells and of zero width or height, and leave the
\* grid as it was.
C18_OutsideRectanglesGiveNothing ==
    (Called /\ ~Overlaps) =>
       /\ LastStep.kind \in {"copy", "cut"}
       /\ LastStep.subgrid.grid = <<>>
       /\ LastStep.subgrid.width = 0 \/ LastStep.subgrid.height = 0
       /\ LastStep.tilegrid = trial.steps[1].tilegrid

Pasted == Len(trial.steps) = 2 /\ LastStep.kind = "pasted"
\* The cell of the pasted sub-grid that lies over the grid cell (col, row).
SourceCell(col, row) ==
    LET c == col - LastStep.topleft[1]
        r == row - LastStep.topleft[2]
    IN IF 0 <= c /\ c < LastStep.subgrid.width /\ 0 <= r /\ r < LastStep.subgrid.height
       THEN At(LastStep.subgrid, c, r) ELSE None

\* C19: after paste_subgrid(s, top_left) every grid cell (c, r) holds the tile
\* of s at (c - top_left.x, r - top_left.y) if s has a tile there, and the
\* tile it held otherwise; the size of the grid is as before; the call indexes
\* no cell outside s and no cell outside the grid; for any top_left, with
\* negative coordinates and beyond the grid.
C19_PasteIsAdditiveAndClipped ==
    Pasted =>
       /\ LastStep.tilegrid.subgrid.width = GridBefore.width
       /\ LastStep.tilegrid.subgrid.height = GridBefore.height
       /\ Len(LastStep.tilegrid.subgrid.grid) = GridBefore.width * GridBefore.height
       /\ \A col \in 0..(GridBefore.width - 1), row \in 0..(GridBefore.height - 1) :
             At(LastStep.tilegrid.subgrid, col, row)
                = IF IsSome(SourceCell(col, row)) THEN SourceCell(col, row)
                  ELSE At(GridBefore, col, row)
       /\ \A c \in LastStep.reads :
             0 <= c[1] /\ c[1] < LastStep.subgrid.width
             /\ 0 <= c[2] /\ c[2] < LastStep.subgrid.height
       /\ \A c \in LastStep.writes :
             0 <= c[1] /\ c[1] < GridBefore.width
             /\ 0 <= c[2] /\ c[2] < GridBefore.height

\* C19 witness: a sub-grid larger than the grid, with an empty cell over a
\* tile of the grid, was pasted at negative coordinates and changed the grid.
C19_Witness ==
    /\ Pasted
    /\ LastStep.topleft = <<-1, -1>>
    /\ LastStep.subgrid.width > GridBefore.width
    /\ LastStep.subgrid.height > GridBefore.height
    /\ ~IsSome(SourceCell(0, 0)) /\ At(GridBefore, 0, 0) = T1
    /\ At(LastStep.tilegrid.subgrid, 0, 0) = T1
    /\ At(LastStep.tilegrid.subgrid, 1, 1) = T2 /\ At(GridBefore, 1, 1) = None
    /\ LastStep.writes # {}

\* The grid of the i-th step of the chain and its cell (col, row), None
\* outside the grid.
StepGrid(i) == trial.steps[i].tilegrid.subgrid
StepCell(i, col, row) ==
    IF col < StepGrid(i).width /\ row < StepGrid(i).height
    THEN At(StepGrid(i), col, row) ELSE None

\* C20: after resize(w2, h2) of a w1 x h1 grid the grid is w2 x h2, its cells
\* (c, r) with c < min(w1, w2) and r < min(h1, h2) hold the tile they held and
\* every other cell is empty; so after a resize and a second resize back to
\* the size before the first, the cells outside the size in between are empty.
C20_ResizeKeepsTheTopLeftRegion ==
    /\ \A i \in 2..Len(trial.steps) :
          trial.steps[i].kind = "resized" =>
             /\ Len(StepGrid(i).grid) = StepGrid(i).width * StepGrid(i).height
             /\ trial.steps[i].tilegrid.tileset = trial.steps[i - 1].tilegrid.tileset
             /\ \A col \in 0..(StepGrid(i).width - 1), row \in 0..(StepGrid(i).height - 1) :
                   At(StepGrid(i), col, row) = StepCell(i - 1, col, row)
    /\ \A i \in 3..Len(trial.steps) :
          (/\ trial.steps[i].kind = "resized" /\ trial.steps[i - 1].kind = "resized"
           /\ StepGrid(i).width = StepGrid(i - 2).width
           /\ StepGrid(i).height = StepGrid(i - 2).height) =>
             \A col \in 0..(StepGrid(i).width - 1), row \in 0..(StepGrid(i).height - 1) :
                At(StepGrid(i), col, row)
                   = IF col < StepGrid(i - 1).width /\ row < StepGrid(i - 1).height
                     THEN At(StepGrid(i - 2), col, row) ELSE None

\* C20 witness: a grid of the default size with tiles in its first and in its
\* last cell was resized to 2 x 1 and back: the first cell holds its tile, the
\* last cell is empty.
C20_Witness ==
    /\ Len(trial.steps) = 3
    /\ trial.steps[2].kind = "resized" /\ trial.steps[3].kind = "resized"
    /\ StepGrid(2).width = 2 /\ StepGrid(2).height = 1
    /\ StepGrid(3).width = GRID_DEFAULT_NUM_COLS
    /\ StepGrid(3).height = GRID_DEFAULT_NUM_ROWS
    /\ StepGrid(1).width = GRID_DEFAULT_NUM_COLS
    /\ StepGrid(1).height = GRID_DEFAULT_NUM_ROWS
    /\ IsSome(At(StepGrid(1), 0, 0)) /\ At(StepGrid(3), 0, 0) = At(StepGrid(1), 0, 0)
    /\ IsSome(At(StepGrid(1), 2, 1)) /\ At(StepGrid(3), 2, 1) = None

(***************************************************************************)
(* The file that TileGrid::save writes.                                    *)
(***************************************************************************)
\* "green_pipes"
FileGreenPipes == <<103, 114, 101, 101, 110, 95, 112, 105, 112, 101, 115>>
\* The default-size grid over [green_pipes] whose only tile is tile 0 of it
\* at (0, 0), with the background (15, 15, 15).
GreenPipesGrid ==
    LET tg == TileGridNew(Tileset(<<[filename |-> FileGreenPipes, ntiles |-> 1]>>))
    IN [tg EXCEPT !.background_color = <<15, 15, 15>>,
                  !.subgrid = SetAt(@, 0, 0, Tile(FileGreenPipes, 0))]

\* One save of a grid.
InitSave ==
    /\ InitEditorState(TileGridNew(TilesetA), TRUE, "Pencil", None, 0)
    /\ \E tg \in FileGrids \cup {GreenPipesGrid} :
          trial = [NoTrial EXCEPT !.steps = <<[kind |-> "grid", tilegrid |-> tg]>>]

NextSave == TrialSave

SpecSave == InitSave /\ [][NextSave]_vars

\* The sequences of a sequence, one after the other.
RECURSIVE Flatten(_)
Flatten(seqs) ==
    IF seqs = <<>> THEN <<>> ELSE seqs[1] \o Flatten(Tail(seqs))

\* The columns of a row that hold a tile, and the rows that hold one.
TileColumns(tg, row) ==
    {col \in 0..(tg.subgrid.width - 1) : IsSome(At(tg.subgrid, col, row))}
TileRows(tg) == {row \in 0..(tg.subgrid.height - 1) : TileColumns(tg, row) # {}}
Last(S) == CHOOSE x \in S : \A y \in S : y <= x
\* The two characters of a cell: two spaces, or the letters of the file's
\* position in the tile set and of the tile's index.
CellChars(tg, col, row) ==
    LET tile == At(tg.subgrid, col, row)
    IN IF ~IsSome(tile) THEN <<Byte.space, Byte.space>>
       ELSE <<index_to_base64(FilenameIndex(Filenames(tg.tileset), tile.filename)),
              index_to_base64(tile.index)>>
\* The line of a row: its cells up to the last one that holds a tile.
RowLine(tg, row) ==
    IF TileColumns(tg, row) = {} THEN <<Byte.newline>>
    ELSE Flatten([i \in 1..(Last(TileColumns(tg, row)) + 1) |->
                     CellChars(tg, i - 1, row)]) \o <<Byte.newline>>
\* The file of a grid, part by part.
HeaderLine(tg) ==
    MAGIC \o FormatInt(tg.background_color[1]) \o <<Byte.space>>
          \o FormatInt(tg.background_color[2]) \o <<Byte.space>>
          \o FormatInt(tg.background_color[3])
          \o (IF <<tg.subgrid.width, tg.subgrid.height>>
                    = <<GRID_DEFAULT_NUM_COLS, GRID_DEFAULT_NUM_ROWS>>
              THEN <<>>
              ELSE <<Byte.space>> \o FormatInt(tg.subgrid.width) \o <<Byte.lower_x>>
                                  \o FormatInt(tg.subgrid.height))
          \o <<Byte.newline>>
NameLines(tg) ==
    Flatten([i \in 1..Len(tg.tileset.tiles) |->
                <<Byte.gt>> \o tg.tileset.tiles[i].filename \o <<Byte.newline>>])
RowLines(tg) ==
    IF TileRows(tg) = {} THEN <<>>
    ELSE <<Byte.newline>>
         \o Flatten([i \in 1..(Last(TileRows(tg)) + 1) |-> RowLine(tg, i - 1)])

\* "@BG 15 15 15\n>green_pipes\n\nAA\n"
GreenPipesFile ==
    <<64, 66, 71, 32, 49, 53, 32, 49, 53, 32, 49, 53, 10,
      62, 103, 114, 101, 101, 110, 95, 112, 105, 112, 101, 115, 10,
      10,
      65, 65, 10>>

\* C21: a save that completes writes the header '@BG r g b', with ' WxH' only
\* when the grid does not have the default size, then one '>name' line per
\* file of the tile set, then, unless no cell holds a tile, a blank line and one
\* line per row up to the last row that holds a tile, each of two characters
\* per cell up to the last cell of the row that holds a tile; the default-size
\* grid over [green_pipes] with tile 0 at (0, 0) and background (15, 15, 15)
\* is written as "@BG 15 15 15\n>green_pipes\n\nAA\n".
C21_SaveWritesTheFormat ==
    (Len(trial.steps) = 2 /\ trial.steps[1].kind = "grid" /\ LastStep.kind = "file")
    => /\ LastStep.bytes = HeaderLine(trial.steps[1].tilegrid)
                           \o NameLines(trial.steps[1].tilegrid)
                           \o RowLines(trial.steps[1].tilegrid)
       /\ trial.steps[1].tilegrid = GreenPipesGrid => LastStep.bytes = GreenPipesFile
\* The green-pipes grid was saved.
C21_Witness ==
    /\ Len(trial.steps) = 2 /\ LastStep.kind = "file"
    /\ trial.steps[1].tilegrid = GreenPipesGrid
    /\ LastStep.bytes = GreenPipesFile
\* A 2 x 2 grid was saved whose only tile is at (0, 0): a trailing empty cell
\* and a trailing empty row.
C21_WitnessTrailing ==
    /\ Len(trial.steps) = 2 /\ LastStep.kind = "file"
    /\ LET tg == trial.steps[1].tilegrid
       IN /\ tg.subgrid.width = 2 /\ tg.subgrid.height = 2
          /\ TileRows(tg) = {0} /\ TileColumns(tg, 0) = {0}

(***************************************************************************)
(* index_to_base64 and base64_to_index on every index and every byte.      *)
(***************************************************************************)
\* index_to_base64 of the index the chain ends with.
TrialToBase64 ==
    /\ trial.steps # <<>> /\ LastStep.kind = "index"
    /\ ~IndexPanics(LastStep.index)
    /\ TrialStep([kind |-> "byte", byte |-> index_to_base64(LastStep.index)])

\* base64_to_index of the byte the chain ends with.
TrialToIndex ==
    /\ trial.steps # <<>> /\ LastStep.kind = "byte"
    /\ \E index \in {base64_to_index(LastStep.byte)} :
          TrialStep(IF index < 0 THEN [kind |-> "error"]
                    ELSE [kind |-> "decoded", index |-> index])

InitBase64 ==
    /\ InitEditorState(TileGridNew(TilesetA), TRUE, "Pencil", None, 0)
    /\ \/ \E index \in 0..63 :
            trial = [NoTrial EXCEPT !.steps = <<[kind |-> "index", index |-> index]>>]
       \/ \E byte \in 0..255 :
            trial = [NoTrial EXCEPT !.steps = <<[kind |-> "byte", byte |-> byte]>>]

NextBase64 ==
    \/ TrialToBase64
    \/ TrialToIndex

SpecBase64 == InitBase64 /\ [][NextBase64]_vars

\* 'A'..'Z', 'a'..'z', '0'..'9', '+' and '/'.
Alphabet == (65..90) \cup (97..122) \cup (48..57) \cup {43, 47}

\* C22: for every index from 0 to 63, index_to_base64 gives a one-byte
\* character of the alphabet and base64_to_index of that character gives the
\* index back; base64_to_index of a byte outside the alphabet is an error.
C22_Base64RoundTrip ==
    /\ (Len(trial.steps) >= 2 /\ trial.steps[1].kind = "index")
       => /\ trial.steps[2].kind = "byte"
          /\ trial.steps[2].byte \in Alphabet /\ trial.steps[2].byte < 128
    /\ (Len(trial.steps) >= 3 /\ trial.steps[1].kind = "index")
       => /\ trial.steps[3].kind = "decoded"
          /\ trial.steps[3].index = trial.steps[1].index
    /\ (Len(trial.steps) >= 2 /\ trial.steps[1].kind = "byte"
          /\ trial.steps[1].byte \notin Alphabet)
       => trial.steps[2].kind = "error"
\* Index 63 went to '/' and back.
C22_Witness ==
    /\ Len(trial.steps) = 3 /\ trial.steps[1] = [kind |-> "index", index |-> 63]
    /\ trial.steps[2].byte = 47 /\ trial.steps[3].index = 63
\* The byte '_' was refused.
C22_WitnessError ==
    /\ Len(trial.steps) = 2 /\ trial.steps[1] = [kind |-> "byte", byte |-> 95]
    /\ trial.steps[2].kind = "error"

(***************************************************************************)
(* Editing: the mouse with four tools, the toolbox and the palette, undo   *)
(* and redo, and the selection and clipboard commands, on a loaded grid.   *)
(***************************************************************************)
InitEdit == InitEditor(LoadedGrid, FALSE, "Pencil", None, MaxEditEvents)

EditPoints == {<<4, 4>>, <<12, 12>>, <<-4, 4>>}

NextEdit ==
    \/ \E pt \in EditPoints : CanvasMouseDown(pt)
    \/ \E pt \in EditPoints : CanvasMouseDrag(pt)
    \/ CanvasMouseUp
    \/ KeyUndo
    \/ KeyRedo
    \/ KeySelectAll
    \/ KeyEscape
    \/ KeyBackspace
    \/ KeyCopy
    \/ KeyCut
    \/ KeyPaste
    \/ \E t \in {"Pencil", "Select", "Eyedropper", "PaintBucket"} : ToolboxPick(t)
    \/ \E b \in {None, T1} : PalettePick(b)

SpecEdit == InitEdit /\ [][NextEdit]_vars

\* C24: undo() with an empty undo stack and redo() with an empty redo stack
\* return false and change nothing: the current snapshot and its grid, the
\* two stacks, the tool, the brush and the clipboard stay as they were.
C24_NothingToUndoOrRedo ==
    [][((ev'.kind = "Undo" /\ undo_stack = <<>>)
          \/ (ev'.kind = "Redo" /\ redo_stack = <<>>))
       => /\ ~ev'.changed
          /\ current' = current /\ heap' = heap
          /\ undo_stack' = undo_stack /\ redo_stack' = redo_stack
          /\ tool' = tool /\ prev_tool' = prev_tool /\ brush' = brush
          /\ clipboard' = clipboard
          /\ persistent_mutation_active' = persistent_mutation_active]_vars
\* An undo() has found the undo stack empty while the redo stack and the
\* clipboard held something.
C24_Witness ==
    /\ ev.kind = "Undo" /\ ~ev.changed
    /\ undo_stack = <<>> /\ redo_stack # <<>> /\ clipboard.some
\* A redo() has found the redo stack empty while the undo stack held something.
C24_WitnessRedo ==
    /\ ev.kind = "Redo" /\ ~ev.changed
    /\ redo_stack = <<>> /\ undo_stack # <<>> /\ current.selection.some

(***************************************************************************)
(* The editing events together with direct calls of EditorState::set_tool  *)
(* and EditorState::eyedrop, with any tool and any cell of the grid.       *)
(***************************************************************************)
\* state.set_tool(t)
CallSetTool(t) ==
    /\ ~panicked
    /\ Handled(Event("SetTool", <<0, 0>>, t,
                     Outcome(St, t # tool, IF t # tool /\ current.selection.some
                                           THEN "mutation" ELSE "none")),
               set_tool(St, t), drag_from_to)

\* state.eyedrop(position), position a cell of the grid
CallEyedrop(position) ==
    /\ ~panicked
    /\ position[1] < tilegrid(St).subgrid.width
    /\ position[2] < tilegrid(St).subgrid.height
    /\ Handled(Event("Eyedrop", position, "", Outcome(St, TRUE, "none")),
               eyedrop(St, position), drag_from_to)

CallCells == {<<0, 0>>, <<1, 0>>, <<2, 1>>}

NextCalls ==
    \/ \E pt \in EditPoints : CanvasMouseDown(pt)
    \/ \E pt \in EditPoints : CanvasMouseDrag(pt)
    \/ CanvasMouseUp
    \/ KeyUndo
    \/ KeyRedo
    \/ KeySelectAll
    \/ KeyBackspace
    \/ KeyCopy
    \/ KeyPaste
    \/ \E t \in {"Select", "Eyedropper"} : ToolboxPick(t)
    \/ \E b \in {None, T1} : PalettePick(b)
    \/ \E t \in Tools : CallSetTool(t)
    \/ \E position \in CallCells : CallEyedrop(position)

SpecCalls == InitEdit /\ [][NextCalls]_vars

\* C25: set_tool with a tool other than the active one leaves no selection
\* (a floating selection is pasted into the grid at the position it has), the
\* coalescing flag reset and the new tool active; set_tool with the active
\* tool changes nothing.
C25_SetToolFinalizesTheSelection ==
    [][ev'.kind = "SetTool"
       => IF ev'.arg # tool
          THEN /\ tool' = ev'.arg
               /\ ~current'.selection.some
               /\ ~persistent_mutation_active'
               /\ heap'[current'.tilegrid] =
                     (IF current.selection.some
                      THEN paste_subgrid(heap[current.tilegrid],
                                         current.selection.subgrid,
                                         current.selection.position)
                      ELSE heap[current.tilegrid])
               /\ ~current.selection.some
                  => /\ current' = current
                     /\ undo_stack' = undo_stack /\ redo_stack' = redo_stack
          ELSE /\ current' = current /\ heap' = heap
               /\ undo_stack' = undo_stack /\ redo_stack' = redo_stack
               /\ tool' = tool /\ prev_tool' = prev_tool /\ brush' = brush
               /\ clipboard' = clipboard
               /\ persistent_mutation_active' = persistent_mutation_active]_vars
\* set_tool has pasted a selection that had been dragged one cell right and
\* down: the tile of (0, 0) is now at (1, 1).
C25_Witness ==
    /\ ev.kind = "SetTool" /\ ev.handle = "mutation" /\ ev.arg = tool
    /\ ~current.selection.some
    /\ At(Grid(St), 0, 0) = None /\ At(Grid(St), 1, 1) = T1
\* set_tool was called with the active tool while a selection floated and the
\* coalescing flag was set.
C25_WitnessSameTool ==
    /\ ev.kind = "SetTool" /\ ~ev.changed
    /\ current.selection.some /\ persistent_mutation_active

\* The cell an eyedrop event is about: the position of a direct call, the cell
\* under the pixel of a click.
EyedropCell(e) ==
    IF e.kind = "Eyedrop" THEN e.pt
    ELSE <<e.pt[1] \div DEFAULT_TILE_SIZE, e.pt[2] \div DEFAULT_TILE_SIZE>>

\* C26: eyedrop(position) sets the brush to the tile of the grid at position,
\* or to none when the cell is empty; with the Eyedropper active the tool
\* becomes the previous tool, or Pencil when the previous tool was Select;
\* with another tool active the tool stays; the grid, the selection and the
\* undo and redo stacks are never changed.
C26_EyedropPicksTheTile ==
    [][(ev'.kind = "Eyedrop"
          \/ (ev'.kind = "MouseDown" /\ ev'.tool = "Eyedropper" /\ ev'.changed))
       => /\ brush' = At(heap[current.tilegrid].subgrid,
                         EyedropCell(ev')[1], EyedropCell(ev')[2])
          /\ tool' = (IF tool # "Eyedropper" THEN tool
                      ELSE IF prev_tool = "Select" THEN "Pencil"
                      ELSE prev_tool)
          /\ current' = current /\ heap' = heap
          /\ undo_stack' = undo_stack /\ redo_stack' = redo_stack]_vars
\* A click with the Eyedropper, picked while Select was active, has taken the
\* tile of (0, 0) and made Pencil the tool.
C26_Witness ==
    /\ ev.kind = "MouseDown" /\ ev.tool = "Eyedropper" /\ ev.changed
    /\ prev_tool = "Select" /\ tool = "Pencil" /\ brush = T1
\* eyedrop was called on an empty cell with a selection floating.
C26_WitnessOtherTool ==
    /\ ev.kind = "Eyedrop" /\ ev.tool = "Select" /\ tool = "Select"
    /\ current.selection.some /\ brush = None /\ undo_stack # <<>>

\* The snapshot on top of the undo stack.
TopUndo(stack) == stack[Len(stack)]

\* C27: every handler that takes mutation() leaves a copy of the snapshot that
\* was current (its grid, its selection, its unsaved flag) on top of the undo
\* stack, above what the stack held, with the redo stack empty, the current
\* snapshot marked unsaved and the coalescing flag reset, whether or not it
\* goes on to change anything through the handle.
C27_MutationPushesASnapshot ==
    [][ev'.handle = "mutation"
       => /\ undo_stack' # <<>>
          /\ TopUndo(undo_stack').as_pushed.tilegrid = heap[current.tilegrid]
          /\ heap'[TopUndo(undo_stack').tilegrid] = heap[current.tilegrid]
          /\ TopUndo(undo_stack').selection = current.selection
          /\ TopUndo(undo_stack').unsaved = current.unsaved
          /\ SubSeq(undo_stack', 1, Len(undo_stack') - 1)
                = (IF Len(undo_stack) < MAX_UNDOS THEN undo_stack
                   ELSE Tail(undo_stack))
          /\ redo_stack' = <<>>
          /\ current'.unsaved
          /\ ~persistent_mutation_active']_vars
\* A paste with an empty clipboard has pushed the saved snapshot and marked
\* the current one unsaved, with the grid as it was.
C27_Witness ==
    /\ ev.kind = "Paste" /\ ~clipboard.some
    /\ Len(undo_stack) = 1 /\ redo_stack = <<>> /\ current.unsaved
    /\ ~TopUndo(undo_stack).unsaved
    /\ tilegrid(St) = LoadedGrid
\* A copy of a floating selection has pushed a snapshot.
C27_WitnessCopy ==
    /\ ev.kind = "Copy" /\ clipboard.some /\ current.selection.some
    /\ Len(undo_stack) = 2 /\ clipboard = current.selection

\* The coalescing flag as persistent_mutation() finds it in the handler of the
\* event e: a mouse-down with the pencil resets it first.
FlagAtCall(e) ==
    IF e.kind = "MouseDown" THEN FALSE ELSE persistent_mutation_active

\* C28: a persistent_mutation() that finds the coalescing flag reset pushes
\* one snapshot, the copy of the current one, and sets the flag; one that
\* finds it set pushes none.  A mouse-down with the pencil and every
\* mutation() reset the flag, so that a pencil stroke that paints (a mouse-down
\* and the drags after it) adds exactly one undo entry, and two strokes two.
C28_StrokesCoalesce ==
    /\ [][/\ ev'.handle = "persistent"
             => /\ persistent_mutation_active'
                /\ current'.unsaved
                /\ IF FlagAtCall(ev')
                   THEN undo_stack' = undo_stack /\ redo_stack' = redo_stack
                   ELSE /\ undo_stack' # <<>>
                        /\ SubSeq(undo_stack', 1, Len(undo_stack') - 1) = undo_stack
                        /\ TopUndo(undo_stack').as_pushed.tilegrid
                              = heap[current.tilegrid]
                        /\ TopUndo(undo_stack').selection = current.selection
                        /\ redo_stack' = <<>>
          /\ ev'.handle = "mutation" => ~persistent_mutation_active'
          /\ (ev'.kind = "MouseDown" /\ ev'.tool = "Pencil" /\ ~ev'.changed)
             => ~persistent_mutation_active']_vars
    /\ [](gesture.phase = "drawing" /\ gesture.painted
          => Len(undo_stack) = gesture.undo_len + 1)
\* The second of two pencil strokes, each a mouse-down and a drag that paint:
\* the undo stack holds the grid before the first and the grid between them.
C28_Witness ==
    /\ events_left = 0 /\ ev.kind = "MouseDrag" /\ ev.handle = "persistent"
    /\ gesture.phase = "drawing" /\ gesture.undo_len = 1
    /\ Len(undo_stack) = 2
    /\ undo_stack[1].as_pushed.tilegrid = LoadedGrid
    /\ undo_stack[2].as_pushed.tilegrid # LoadedGrid
    /\ tilegrid(St) # undo_stack[2].as_pushed.tilegrid

\* A snapshot by value: its grid, its selection and its unsaved flag.
Value(h, snapshot) ==
    [tilegrid |-> h[snapshot.tilegrid], selection |-> snapshot.selection,
     unsaved |-> snapshot.unsaved]
Values(h, stack) == [i \in 1..Len(stack) |-> Value(h, stack[i])]
\* The current snapshot and the two stacks of a state, by value.
History(s) ==
    [current |-> Value(s.heap, s.current),
     undo_stack |-> Values(s.heap, s.undo_stack),
     redo_stack |-> Values(s.heap, s.redo_stack)]

\* C29: undo() with a non-empty undo stack makes the snapshot on top of it
\* (grid, selection, unsaved flag) the current one and pushes the snapshot that
\* was current on the redo stack; redo() does the same with the stacks
\* exchanged; undo() followed at once by redo() leaves the current snapshot,
\* the undo stack and the redo stack as they were.
C29_UndoAndRedoSwapSnapshots ==
    /\ [][/\ (ev'.kind = "Undo" /\ undo_stack # <<>>)
             => /\ ev'.changed
                /\ Value(heap', current') = Value(heap, TopUndo(undo_stack))
                /\ Values(heap', undo_stack')
                      = Values(heap, SubSeq(undo_stack, 1, Len(undo_stack) - 1))
                /\ Values(heap', redo_stack')
                      = Append(Values(heap, redo_stack), Value(heap, current))
          /\ (ev'.kind = "Redo" /\ redo_stack # <<>>)
             => /\ ev'.changed
                /\ Value(heap', current') = Value(heap, TopUndo(redo_stack))
                /\ Values(heap', redo_stack')
                      = Values(heap, SubSeq(redo_stack, 1, Len(redo_stack) - 1))
                /\ Values(heap', undo_stack')
                      = Append(Values(heap, undo_stack), Value(heap, current))]_vars
    /\ [](undo_stack # <<>> => History(redo(undo(St))) = History(St))
\* One mutation that changed the grid, one undo and one redo: the grid of the
\* mutation is current again, with the first grid below it.
C29_Witness ==
    /\ run.phase = "redo" /\ run.calls = 1 /\ Len(run.trail) = 2
    /\ run.trail[2] # run.trail[1]
    /\ Grid(St) = run.trail[2]
    /\ Len(undo_stack) = 1 /\ redo_stack = <<>>
    /\ heap[undo_stack[1].tilegrid].subgrid = run.trail[1]

\* C30: after an undo() or a redo() that restored a snapshot, the tool is
\* Select when the snapshot that is now current has a floating selection, and
\* the tool it was otherwise.
C30_RestoredSelectionPicksSelect ==
    [][(ev'.kind \in {"Undo", "Redo"} /\ ev'.changed)
       => /\ current'.selection.some => tool' = "Select"
          /\ ~current'.selection.some => tool' = tool
          /\ prev_tool' = prev_tool]_vars
\* An undo() with the Pencil active has brought back a floating selection.
C30_Witness ==
    /\ ev.kind = "Undo" /\ ev.changed /\ ev.tool = "Pencil"
    /\ current.selection.some /\ tool = "Select"
\* A redo() with Select active has restored a snapshot without a selection.
C30_WitnessNoSelection ==
    /\ ev.kind = "Redo" /\ ev.changed /\ ev.tool = "Select"
    /\ ~current.selection.some /\ tool = "Select"

(***************************************************************************)
(* Resizes and view sizes: the resize prompt, the view-size key, clicks,   *)
(* select-all, cut, paste and undo, on a loaded grid that is one cell      *)
(* larger than the margins of the small views on every side.               *)
(***************************************************************************)
ViewGrid ==
    [TileGridNew(TilesetA) EXCEPT !.subgrid =
        SetAt(SubGridNew(2 * horz_margin + 1, 2 * vert_margin + 1), 0, 0, T1)]

InitView == InitEditor(ViewGrid, FALSE, "Pencil", None, MaxViewEvents)

NextView ==
    \/ KeyBegin("Resize")
    \/ PromptBackspace
    \/ TextInput(<<49>>)
    \/ PromptReturn(TRUE)
    \/ KeyViewSize
    \/ CanvasMouseDown(<<4, 4>>)
    \/ CanvasMouseUp
    \/ KeySelectAll
    \/ KeyCut
    \/ KeyPaste
    \/ KeyUndo

SpecView == InitView /\ [][NextView]_vars

\* The cells of a sub-grid.
CellsOf(sg) == (0..(sg.width - 1)) \X (0..(sg.height - 1))
\* The accesses of unselect() on a floating selection or a clipboard content.
PasteInRange(tg, sel) ==
    sel.some => /\ PasteReads(tg, sel.subgrid, sel.position) \subseteq CellsOf(sel.subgrid)
                /\ PasteWrites(tg, sel.subgrid, sel.position) \subseteq CellsOf(tg.subgrid)
\* The handlers of the next event index the grid inside its bounds: the cell
\* under the mouse, the rectangle of a drag, the rectangle of select-all, cut
\* and copy, the paste of the selection and of the clipboard.
HandlersPreClamp ==
    LET tg == tilegrid(St)
    IN /\ \A pt \in MousePoints \cup {<<60, 44>>, <<4, 12>>} :
            mouse_to_row_col(pt, tg).some
            => InRange(tg.subgrid, mouse_to_row_col(pt, tg).pos[1],
                       mouse_to_row_col(pt, tg).pos[2])
       /\ drag_from_to.some
          => ~ClipSubgrid(tg, dragged_rect(drag_from_to, tg), TRUE, FALSE).panic
       /\ ~ClipSubgrid(tg, Rect(0, 0, GRID_DEFAULT_NUM_COLS, GRID_DEFAULT_NUM_ROWS),
                       TRUE, FALSE).panic
       /\ PasteInRange(tg, current.selection)
       /\ PasteInRange(tg, clipboard)

\* C23: no event sequence of the editor makes a grid or sub-grid access with a
\* column that is not below the width or a row that is not below the height:
\* the handlers and the drawing that follows them stay inside the grid, and
\* the process does not die of 'index out of range'.
C23_EveryAccessIsInRange ==
    /\ ~draw(view_size, tilegrid(St), overflow_checks).index_panic
    /\ panicked => draw(view_size, tilegrid(St), overflow_checks).overflow_panic
    /\ ~panicked => HandlersPreClamp
\* The drawing indexes the grid out of range only in a build without overflow
\* checks, in one of the views with margins, on a grid no larger than them.
DrawFailsOnSmallGridsOnly ==
    draw(view_size, tilegrid(St), overflow_checks).index_panic
    => /\ ~overflow_checks
       /\ view_size \in {"Small", "Wide", "Tall"}
       /\ \/ tilegrid(St).subgrid.width < horz_margin
          \/ tilegrid(St).subgrid.height < vert_margin
\* With the view size the editor starts with, every access is in range.
FullViewStaysInRange ==
    view_size \in {"Full", "Margin"}
    => /\ ~draw(view_size, tilegrid(St), overflow_checks).index_panic
       /\ ~panicked => HandlersPreClamp

\* The rectangle that the handler of the event e passes to Mutation::select.
SelectedRect(e) ==
    IF e.kind = "SelectAll"
    THEN Rect(0, 0, GRID_DEFAULT_NUM_COLS, GRID_DEFAULT_NUM_ROWS)
    ELSE dragged_rect(drag_from_to, heap[current.tilegrid])
\* The grid with the selection that floats pasted at its position.
Settled ==
    IF current.selection.some
    THEN paste_subgrid(heap[current.tilegrid], current.selection.subgrid,
                       current.selection.position)
    ELSE heap[current.tilegrid]

\* C31: Mutation::select(rect), for a rectangle inside the grid, leaves the
\* grid as it was with the former selection pasted at its position and the
\* cells of rect emptied, the selection a sub-grid of the size of rect that
\* holds what those cells held, anchored at the top-left corner of rect, the
\* tool Select and the previous tool the tool that was active.
C31_SelectCutsTheRectangle ==
    [][((ev'.kind = "SelectAll" \/ (ev'.kind = "MouseUp" /\ ev'.handle = "mutation"))
          /\ ~panicked')
       => LET rect == SelectedRect(ev')
              before == Settled.subgrid
              after == heap'[current'.tilegrid].subgrid
              sel == current'.selection
          IN /\ sel.some
             /\ sel.position = <<rect.x, rect.y>>
             /\ sel.subgrid.width = rect.w /\ sel.subgrid.height = rect.h
             /\ after.width = before.width /\ after.height = before.height
             /\ \A col \in 0..(before.width - 1), row \in 0..(before.height - 1) :
                   IF RectContains(rect, <<col, row>>)
                   THEN /\ At(after, col, row) = None
                        /\ At(sel.subgrid, col - rect.x, row - rect.y)
                              = At(before, col, row)
                   ELSE At(after, col, row) = At(before, col, row)
             /\ tool' = "Select" /\ prev_tool' = tool]_vars
\* A select-all has found a selection dragged one cell right and down: the
\* tile of (0, 0) was pasted at (1, 1) and cut from there, and the grid is empty.
C31_Witness ==
    /\ ev.kind = "SelectAll" /\ events_left = 0
    /\ current.selection.some /\ current.selection.position = <<0, 0>>
    /\ At(current.selection.subgrid, 1, 1) = T1
    /\ At(current.selection.subgrid, 0, 0) = None
    /\ \A c \in Cells : At(Grid(St), c[1], c[2]) = None
\* A drag with Select over the cells (0, 0) and (1, 1) has cut them out,
\* with the Pencil as previous tool.
C31_WitnessDrag ==
    /\ ev.kind = "MouseUp" /\ ev.handle = "mutation"
    /\ current.selection.some /\ current.selection.subgrid.width = 2
    /\ current.selection.subgrid.height = 2
    /\ At(current.selection.subgrid, 0, 0) = T1 /\ At(Grid(St), 0, 0) = None
    /\ tool = "Select"

(***************************************************************************)
(* The clipboard: select-all, drags with Select, copy, cut, paste and      *)
(* undo, on loaded grids of the default size, of a larger and of a         *)
(* smaller size.                                                           *)
(***************************************************************************)
\* One column and one row more than the default, with tiles in the first
\* cell, in (1, 1) and in the last cell.
LargeGrid ==
    [TileGridNew(TilesetA) EXCEPT !.subgrid =
        SetAt(SetAt(SetAt(SubGridNew(GRID_DEFAULT_NUM_COLS + 1,
                                     GRID_DEFAULT_NUM_ROWS + 1),
                          0, 0, T1), 1, 1, T2),
              GRID_DEFAULT_NUM_COLS, GRID_DEFAULT_NUM_ROWS, T1)]
\* One column and one row less than the default.
SmallGrid ==
    [TileGridNew(TilesetA) EXCEPT !.subgrid =
        SetAt(SubGridNew(GRID_DEFAULT_NUM_COLS - 1, GRID_DEFAULT_NUM_ROWS - 1),
              0, 0, T1)]

InitClipboard ==
    \E tg \in {LoadedGrid, LargeGrid, SmallGrid} :
        InitEditor(tg, FALSE, "Pencil", None, MaxClipboardEvents)

NextClipboard ==
    \/ KeySelectAll
    \/ \E pt \in {<<4, 4>>, <<12, 12>>} : CanvasMouseDown(pt)
    \/ CanvasMouseDrag(<<12, 12>>)
    \/ CanvasMouseUp
    \/ KeyCopy
    \/ KeyCut
    \/ KeyPaste
    \/ ToolboxPick("Select")
    \/ KeyUndo

SpecClipboard == InitClipboard /\ [][NextClipboard]_vars

\* C32: paste_selection with something on the clipboard leaves the floating
\* selection equal to the sub-grid of the clipboard at the position of the
\* clipboard, the clipboard as it was and the tool Select; with an empty
\* clipboard the grid, the selection and the tool stay as they were.
C32_PasteFloatsTheClipboard ==
    [][ev'.kind = "Paste"
       => /\ clipboard' = clipboard
          /\ IF clipboard.some
             THEN /\ current'.selection.some
                  /\ current'.selection.subgrid = clipboard.subgrid
                  /\ current'.selection.position = clipboard.position
                  /\ tool' = "Select"
                  /\ heap'[current'.tilegrid] = Settled
             ELSE /\ heap'[current'.tilegrid] = heap[current.tilegrid]
                  /\ current'.selection = current.selection
                  /\ tool' = tool /\ prev_tool' = prev_tool]_vars
\* A paste of a clipboard that was cut from the cell (1, 1): the selection
\* floats at (1, 1) with the tile of that cell, the clipboard still holds it.
C32_Witness ==
    /\ ev.kind = "Paste" /\ clipboard.some
    /\ clipboard.position = <<1, 1>> /\ At(clipboard.subgrid, 0, 0) = T2
    /\ current.selection = clipboard
    /\ tool = "Select"
    /\ At(Grid(St), 1, 1) = None
\* A paste with an empty clipboard and the Pencil active.
C32_WitnessEmpty ==
    /\ ev.kind = "Paste" /\ ~clipboard.some /\ tool = "Pencil"
    /\ undo_stack # <<>> /\ tilegrid(St) = LargeGrid

\* What C33 asks of a cut or copy event on a grid, for the part of the grid
\* that is said to go to the clipboard: the sub-grid `whole`.
CutOrCopyTakes(whole) ==
    /\ (ev'.kind = "Cut" /\ ~current.selection.some /\ ~panicked')
       => /\ clipboard' = SomeSelection(whole, <<0, 0>>)
          /\ ~current'.selection.some
          /\ \A i \in 1..Len(heap'[current'.tilegrid].subgrid.grid) :
                heap'[current'.tilegrid].subgrid.grid[i] = None
    /\ (ev'.kind = "Copy" /\ ~current.selection.some /\ ~panicked')
       => /\ clipboard' = SomeSelection(whole, <<0, 0>>)
          /\ ~current'.selection.some
          /\ heap'[current'.tilegrid] = heap[current.tilegrid]
    /\ (ev'.kind = "Cut" /\ current.selection.some)
       => /\ clipboard' = current.selection
          /\ ~current'.selection.some
          /\ heap'[current'.tilegrid] = heap[current.tilegrid]
    /\ (ev'.kind = "Copy" /\ current.selection.some)
       => /\ clipboard' = current.selection
          /\ current'.selection = current.selection
          /\ heap'[current'.tilegrid] = heap[current.tilegrid]

\* C33: without a floating selection, cut_selection moves the content of the
\* whole grid, whatever its dimensions, to the clipboard and leaves every cell
\* empty, and copy_selection puts a copy of the whole grid there; with a
\* floating selection, cut moves the selection to the clipboard and copy puts
\* a clone of it there and leaves the selection floating.
C33_CutAndCopyTakeTheWholeGrid ==
    [][CutOrCopyTakes(heap[current.tilegrid].subgrid)]_vars
\* The same for grids that are no larger than the default size.
CutAndCopyTakeSmallGrids ==
    [][(heap[current.tilegrid].subgrid.width <= GRID_DEFAULT_NUM_COLS
          /\ heap[current.tilegrid].subgrid.height <= GRID_DEFAULT_NUM_ROWS)
       => CutOrCopyTakes(heap[current.tilegrid].subgrid)]_vars
\* On any grid, what is taken is the part of the grid inside the rectangle of
\* the default size at the origin, and the cells outside it stay.
CutAndCopyTakeTheDefaultRegion ==
    [][LET sg == heap[current.tilegrid].subgrid
           w == Min(sg.width, GRID_DEFAULT_NUM_COLS)
           h == Min(sg.height, GRID_DEFAULT_NUM_ROWS)
       IN (ev'.kind \in {"Cut", "Copy"} /\ ~current.selection.some)
          => /\ clipboard'.some /\ clipboard'.position = <<0, 0>>
             /\ clipboard'.subgrid.width = w /\ clipboard'.subgrid.height = h
             /\ \A col \in 0..(sg.width - 1), row \in 0..(sg.height - 1) :
                   IF col < w /\ row < h
                   THEN /\ At(clipboard'.subgrid, col, row) = At(sg, col, row)
                        /\ At(heap'[current'.tilegrid].subgrid, col, row)
                              = (IF ev'.kind = "Cut" THEN None ELSE At(sg, col, row))
                   ELSE At(heap'[current'.tilegrid].subgrid, col, row)
                           = At(sg, col, row)]_vars

\* C34: a click with a palette tool on a cell that holds `from`, with a brush
\* `to` other than `from`, makes `from` the brush, pushes one undo entry and
\* turns every cell equal to `from` into `to`; with the swap tool every cell
\* equal to `to` becomes `from` as well; every other cell stays.  When `from`
\* is the brush, no cell, no brush and no stack changes.
C34_PaletteReplaceRewritesTheGrid ==
    [][(ev'.kind = "MouseDown" /\ ev'.tool \in {"PaletteReplace", "PaletteSwap"}
          /\ mouse_to_row_col(ev'.pt, heap[current.tilegrid]).some)
       => LET before == heap[current.tilegrid].subgrid
              after == heap'[current'.tilegrid].subgrid
              p == mouse_to_row_col(ev'.pt, heap[current.tilegrid]).pos
              from == At(before, p[1], p[2])
              to == brush
          IN IF from # to
             THEN /\ brush' = from
                  /\ Len(undo_stack') = Len(undo_stack) + 1
                  /\ TopUndo(undo_stack').as_pushed.tilegrid = heap[current.tilegrid]
                  /\ \A col \in 0..(before.width - 1), row \in 0..(before.height - 1) :
                        At(after, col, row) =
                           (IF At(before, col, row) = from THEN to
                            ELSE IF ev'.tool = "PaletteSwap" /\ At(before, col, row) = to
                            THEN from
                            ELSE At(before, col, row))
             ELSE /\ ~ev'.changed
                  /\ brush' = brush
                  /\ after = before
                  /\ current' = current
                  /\ undo_stack' = undo_stack /\ redo_stack' = redo_stack]_vars
\* A first click with the swap tool and the eraser on a cell with tile 0 of
\* "a", on a grid with that tile, another tile and empty cells: the tile's
\* cells are empty, the empty cells hold the tile, the other tile stays.
C34_Witness ==
    /\ ev.kind = "MouseDown" /\ ev.tool = "PaletteSwap" /\ ev.changed
    /\ Len(undo_stack) = 1 /\ brush = T1
    /\ \E c, d, e \in Cells :
          LET before == undo_stack[1].as_pushed.tilegrid.subgrid
          IN /\ At(before, c[1], c[2]) = T1 /\ At(Grid(St), c[1], c[2]) = None
             /\ At(before, d[1], d[2]) = None /\ At(Grid(St), d[1], d[2]) = T1
             /\ At(before, e[1], e[2]) = T2 /\ At(Grid(St), e[1], e[2]) = T2
\* A click with the replace tool on a cell that holds the brush.
C34_WitnessSame ==
    /\ ev.kind = "MouseDown" /\ ev.tool = "PaletteReplace" /\ ~ev.changed
    /\ ev.pt = <<4, 4>> /\ At(Grid(St), 0, 0) = brush /\ IsSome(brush)
    /\ undo_stack = <<>>

\* C35: whenever a selection floats, the active tool is Select: no tool
\* switch, eyedrop, palette pick, clipboard command, undo or redo leaves a
\* floating selection with another tool active.
C35_FloatingSelectionMeansSelect ==
    current.selection.some => tool = "Select"
\* A paste with the Pencil active has floated the clipboard and made Select
\* the tool.
C35_Witness ==
    /\ ev.kind = "Paste" /\ ev.tool = "Pencil"
    /\ current.selection.some /\ tool = "Select"
\* A palette pick with Select active and a floating selection has pasted the
\* selection and made Pencil the tool.
C35_WitnessPick ==
    /\ ev.kind = "PickBrush" /\ ev.tool = "Select" /\ ev.handle = "mutation"
    /\ ~current.selection.some /\ tool = "Pencil"

(***************************************************************************)
(* The tile file-name prompt with the clipboard: copy, the prompt with its *)
(* text replaced by "b", paste, save and undo, on a document loaded from   *)
(* "o1" whose tiles are of the file "a".                                   *)
(***************************************************************************)
InitTiles == InitEditor(LoadedGrid, FALSE, "Pencil", None, MaxTilesEvents)

NextTiles ==
    \/ KeyCopy
    \/ KeyBegin("ChangeTiles")
    \/ PromptBackspace
    \/ TextInput(<<98>>)
    \/ PromptReturn(TRUE)
    \/ KeyPaste
    \/ KeySave(TRUE)
    \/ KeyUndo

SpecTiles == InitTiles /\ [][NextTiles]_vars

\* The cells of the grid tg that hold a tile of a file its tile set lacks.
Strays(tg) ==
    {i \in 1..Len(tg.subgrid.grid) :
        /\ IsSome(tg.subgrid.grid[i])
        /\ \A j \in 1..Len(tg.tileset.tiles) :
              tg.tileset.tiles[j].filename # tg.subgrid.grid[i].filename}

\* C36: every non-empty cell of the current grid refers to a file name of
\* that grid's tile set, so that the file-index lookup of save never fails,
\* also after a paste of a clipboard that was filled before the list of tile
\* file names was changed.
C36_CellsReferToTheTileset ==
    /\ Strays(heap[current.tilegrid]) = {}
    /\ ~save(heap[current.tilegrid]).panic

\* C37: whenever is_unsaved() is false, the current grid (background colour,
\* dimensions, tile file names and every cell) is the content of the last
\* successful save or load; and every event that took a mutation handle,
\* other than a save, leaves is_unsaved() true.
C37_SavedMeansOnDisk ==
    /\ [](~panicked /\ ~current.unsaved
          => saved.some /\ heap[current.tilegrid] = saved.tilegrid)
    /\ [][(ev'.handle # "none" /\ ev'.kind # "Save" /\ ~panicked')
          => current'.unsaved]_vars
\* A new document was saved to "out" and painted on, and an undo has brought
\* back the saved snapshot: it reports saved, and the edit waits for a redo.
C37_Witness ==
    /\ ev.kind = "Undo" /\ ev.changed /\ ~current.unsaved
    /\ filepath = PathOut /\ redo_stack # <<>>
    /\ redo_stack[1].unsaved
    /\ heap[current.tilegrid] = load(disk[PathOut]).tilegrid
\* A click of the pencil on a saved document has left it unsaved.
C37_WitnessEdit ==
    /\ ev.kind = "MouseDown" /\ ev.handle = "persistent" /\ current.unsaved
    /\ Len(undo_stack) = 1 /\ ~undo_stack[1].unsaved

\* C38: the undo stack and the redo stack together never hold more than
\* MAX_UNDOS snapshots; so redo() never makes the undo stack longer than
\* MAX_UNDOS, and the redo stack is never longer than MAX_UNDOS.
C38_StacksHoldAHundredTogether ==
    Len(undo_stack) + Len(redo_stack) <= MAX_UNDOS
\* After more than MAX_UNDOS mutations, MAX_UNDOS undo() calls and as many
\* redo() calls, the last redo() has filled the undo stack again.
C38_Witness ==
    /\ ev.kind = "Redo" /\ ev.changed
    /\ run.phase = "redo" /\ RunLength = MAX_UNDOS + 1
    /\ Len(undo_stack) = MAX_UNDOS /\ redo_stack = <<>>
\* Halfway through the undo() calls both stacks hold snapshots.
C38_WitnessBoth ==
    /\ ev.kind = "Undo" /\ ev.changed /\ RunLength = MAX_UNDOS + 1
    /\ Len(undo_stack) = 50 /\ Len(redo_stack) = 50

(***************************************************************************)
(* The loop of the flood fill, one pop of the work stack at a time, on     *)
(* every grid, seed and brush of a bounded set.  The editor takes no event *)
(* meanwhile; the loop runs to its end within one handler, so a pop that   *)
(* can be taken is taken.                                                  *)
(***************************************************************************)
FillGrids ==
    {tg.subgrid : tg \in ToolGrids}
    \cup {LargeGrid.subgrid, SmallGrid.subgrid, SubGridNew(1, 1),
          SubGridNew(GRID_DEFAULT_NUM_COLS + 1, GRID_DEFAULT_NUM_ROWS + 1)}

\* try_flood_fill up to its loop, for a seed whose tile is not the brush: the
\* seed is repainted and is the only cell on the work stack.  `pushed` lists
\* the cells pushed so far and `pops` counts the cells processed.
FillStart(sg, start, to_tile) ==
    [kind |-> "fill", before |-> sg, seed |-> start,
     from_tile |-> At(sg, start[1], start[2]), to_tile |-> to_tile,
     subgrid |-> SetAt(sg, start[1], start[2], to_tile),
     stack |-> <<start>>, pushed |-> <<start>>, pops |-> 0]

InitFill ==
    /\ InitEditorState(TileGridNew(TilesetA), TRUE, "PaintBucket", None, 0)
    /\ \E sg \in FillGrids, to_tile \in {None, T1, T2} :
       \E start \in (0..(sg.width - 1)) \X (0..(sg.height - 1)) :
          /\ At(sg, start[1], start[2]) # to_tile
          /\ trial = [NoTrial EXCEPT !.steps = <<FillStart(sg, start, to_tile)>>]

\* The fill in progress.
Fill == trial.steps[1]
FillArea == Fill.subgrid.width * Fill.subgrid.height

\* One turn of `while let Some((col, row)) = stack.pop()`: the top cell is
\* popped and its neighbours are visited.  The count of pops is capped one
\* above the number of cells.
FillPop ==
    /\ Fill.stack # <<>>
    /\ Fill.pops <= FillArea
    /\ LET n == Len(Fill.stack)
           top == Fill.stack[n]
           Visited(v) ==
               trial' = [trial EXCEPT !.steps[1] =
                            [Fill EXCEPT !.subgrid = v.subgrid,
                                         !.stack = v.stack,
                                         !.pushed = @ \o SubSeq(v.stack, n, Len(v.stack)),
                                         !.pops = @ + 1]]
       IN Visited(FillVisit(Fill.subgrid, SubSeq(Fill.stack, 1, n - 1),
                            FillNeighbours(Fill.subgrid, top[1], top[2]), 1,
                            Fill.from_tile, Fill.to_tile))
    /\ UNCHANGED <<stateVars, histVars, promptVars>>

NextFill == FillPop

SpecFill == InitFill /\ [][NextFill]_vars /\ WF_vars(FillPop)

\* C39: the flood fill terminates on every grid and brush.  A cell is pushed
\* on the work stack only when it is repainted from the seed's tile to the
\* brush, so no cell is pushed twice, and at most width x height cells are
\* pushed and processed.
C39_FloodFillTerminates ==
    /\ <>(Fill.stack = <<>>)
    /\ [](/\ \A i, j \in 1..Len(Fill.pushed) : Fill.pushed[i] = Fill.pushed[j] => i = j
          /\ Len(Fill.pushed) <= FillArea
          /\ Fill.pops <= FillArea
          /\ Fill.stack = <<>> =>
                Fill.subgrid = FillLoop(SetAt(Fill.before, Fill.seed[1], Fill.seed[2],
                                              Fill.to_tile),
                                        <<Fill.seed>>, Fill.from_tile, Fill.to_tile))
    /\ [][\A k \in (Len(Fill.pushed) + 1)..Len(Fill'.pushed) :
             LET c == Fill'.pushed[k]
             IN /\ At(Fill.subgrid, c[1], c[2]) = Fill.from_tile
                /\ At(Fill'.subgrid, c[1], c[2]) = Fill.to_tile]_vars
\* A fill has ended after it pushed and processed every cell of an empty grid
\* that is larger than the default.
C39_Witness ==
    /\ Fill.stack = <<>>
    /\ Fill.subgrid.width > GRID_DEFAULT_NUM_COLS
    /\ Fill.pops = FillArea /\ Len(Fill.pushed) = FillArea
    /\ \A i \in 1..FillArea : Fill.subgrid.grid[i] = Fill.to_tile
\* A fill has ended with cells of the seed's tile left, which the region of
\* the seed does not touch.
C39_WitnessPartial ==
    /\ Fill.stack = <<>> /\ Fill.pops > 1 /\ Fill.pops < FillArea
    /\ \E i \in 1..FillArea : Fill.subgrid.grid[i] = Fill.from_tile

\* C40: after a successful load the undo stack and the redo stack are empty,
\* the coalescing flag is reset, the brush is empty and no selection floats,
\* whatever the events between the opening of the load prompt and its commit;
\* so that no later undo, redo or unselect brings tiles of the previous
\* document into the loaded grid.
C40_LoadLeavesNothingBehind ==
    [][(ev'.kind = "Return" /\ ev'.arg = "LoadFile" /\ ev'.changed)
       => /\ undo_stack' = <<>> /\ redo_stack' = <<>>
          /\ ~persistent_mutation_active'
          /\ brush' = None
          /\ ~current'.selection.some]_vars
\* What the load does leave: empty stacks, the flag reset and no brush.
LoadClearsTheHistory ==
    [][(ev'.kind = "Return" /\ ev'.arg = "LoadFile" /\ ev'.changed)
       => /\ undo_stack' = <<>> /\ redo_stack' = <<>>
          /\ ~persistent_mutation_active'
          /\ brush' = None
          /\ heap'[current'.tilegrid] = load(disk[filepath']).tilegrid]_vars
\* A selection cut from the previous document floats over the loaded grid.
LoadedUnderASelection ==
    /\ ev.kind = "Return" /\ ev.arg = "LoadFile" /\ ev.changed
    /\ current.selection.some /\ ~current.unsaved
    /\ \E i \in 1..Len(current.selection.subgrid.grid) :
          IsSome(current.selection.subgrid.grid[i])

====
